---- MODULE Spec2Model ----
(***************************************************************************)
(* Model of the DMCA monitor's alert state store (dmca_monitor/state.py),  *)
(* the takedown rechecker (dmca_monitor/checker.py), the review handlers   *)
(* of the web application (webapp/app.py) and the scan run's use of the    *)
(* store (dmca_monitor/scan_and_alert.py).                                 *)
(*                                                                         *)
(* Python values.  Dicts are functions from strings, lists are sequences,  *)
(* and every scalar is a tagged pair so that None, str, int and bool stay  *)
(* distinct: <<"n", 0>> is None, <<"s", x>> a str, <<"i", k>> an int,      *)
(* <<"b", b>> a bool and <<"t", k>> the ISO-8601 string of instant k.      *)
(***************************************************************************)
EXTENDS Integers, Sequences, FiniteSets, TLC

VARIABLES
    clock,      \* the wall clock, in instants
    alerts,     \* SpecStore: the AlertState the store operations are applied to
    call,       \* SpecStore: the operation applied last, with its arguments
    ops,        \* SpecStore: how many operations have been applied
    hist,       \* SpecStore: per (site, url), the upsert_match calls made so far
    names,      \* the directory: file name -> inode, 0 when there is no such file
    data,       \* inode -> the text of the file
    lock,       \* process -> the thread holding its state._LOCK, "" when free
    pc,         \* thread -> where it is in its handler
    mem,        \* thread -> the AlertState it holds in memory
    fh,         \* thread -> the inode it has open for writing, 0 when none
    off,        \* thread -> the offset of its open file
    got,        \* what the last load_state call did
    prior,      \* thread -> what load_state gave when its save_state began
    initial,    \* the file at the path when the program started
    saves,      \* number of save_state calls made so far
    probe,      \* SpecCheck: what a worker's fetch did and check_one's result
    cfg,        \* SpecScan: the configuration and the inputs of the scan runs
    disk,       \* SpecScan: the persisted SeenSet, AlertState and audit log
    run,        \* SpecScan: the local variables of the scan run in progress
    events      \* SpecScan: what the runs did so far, in order

storeVars == <<alerts, call, ops, hist>>
fsVars == <<names, data, lock, pc, mem, fh, off, got, prior, initial, saves>>
scanVars == <<cfg, disk, run, events>>
vars == <<clock, alerts, call, ops, hist, names, data, lock, pc, mem, fh, off, got, prior,
          initial, saves, probe, cfg, disk, run, events>>

\* Bounds of the model
MaxClock == 2
MaxOps == 3
\* tokens the file buffer holds before it is flushed to the file
FlushLen == 80
MaxSaves == 2

----------------------------------------------------------------------------
(* Scalars *)

None == <<"n", 0>>
Str(s) == <<"s", s>>
Num(k) == <<"i", k>>
Bool(b) == <<"b", b>>
Ts(k) == <<"t", k>>

\* Python truthiness of a scalar: None, "", 0 and False are falsy.
Truthy(v) ==
    CASE v[1] = "n" -> FALSE
      [] v[1] = "s" -> v[2] # ""
      [] v[1] = "i" -> v[2] # 0
      [] v[1] = "b" -> v[2]
      [] OTHER -> TRUE

EmptyDict == <<>>

\* dict.get(k, default)
Get(d, k, default) == IF k \in DOMAIN d THEN d[k] ELSE default

\* d with d[k] = v (the key is added when it is absent)
Put(d, k, v) == (k :> v) @@ d

\* d without the key k: dict.pop(k, None)
Pop(d, k) == [x \in (DOMAIN d) \ {k} |-> d[x]]

\* A fixed iteration order of a finite set of keys (a dict's iteration order).
RECURSIVE KeySeq(_)
KeySeq(S) ==
    IF S = {} THEN <<>>
    ELSE LET k == CHOOSE x \in S : TRUE IN <<k>> \o KeySeq(S \ {k})

----------------------------------------------------------------------------
(* JSON text, as a sequence of tokens.  json.dump(state, f, indent=2,      *)
(* ensure_ascii=False) writes the punctuation, the newline-and-indent      *)
(* whitespace and the literals; json.loads reads them back.                *)

LBrace == <<"p", "{">>
RBrace == <<"p", "}">>
LBrack == <<"p", "[">>
RBrack == <<"p", "]">>
Colon == <<"p", ":">>
Comma == <<"p", ",">>
Ws == <<"p", " ">>
\* a byte sequence that is not UTF-8
BadBytes == <<"x", "bytes">>
\* decodable text that is not JSON
Junk == <<"x", "junk">>
Lit(v) == <<"l", v>>

IsLit(tok) == tok[1] = "l"

\* json.dump of a dict whose values are scalars (a note, or the scalar
\* fields of a match record), and of the "notes" list of a record: newline
\* and indent before each member, a comma between members, a newline before
\* the closing bracket; an empty container is "{}" or "[]".
RECURSIVE DumpFields(_, _)
RECURSIVE DumpNotes(_)
RECURSIVE DumpFieldsSkipsNone(_, _)
\* DumpFields leaving out the members whose value is None
DumpFieldsSkipsNone(keys, d) ==
    LET kept == SelectSeq(keys, LAMBDA k : k = "notes" \/ d[k] # None) IN
    IF kept = <<>> THEN <<>>
    ELSE LET k == Head(kept)
             val == IF k = "notes"
                    THEN IF d[k] = <<>> THEN <<LBrack, RBrack>>
                         ELSE <<LBrack>> \o DumpNotes(d[k]) \o <<Ws, RBrack>>
                    ELSE <<Lit(d[k])>>
         IN <<Ws, Lit(Str(k)), Colon>> \o val
            \o (IF Len(kept) > 1 THEN <<Comma>> ELSE <<>>)
            \o DumpFieldsSkipsNone(Tail(kept), d)

DumpFields(keys, d) ==
    IF keys = <<>> THEN <<>>
    ELSE LET k == Head(keys)
             val == IF k = "notes"
                    THEN IF d[k] = <<>> THEN <<LBrack, RBrack>>
                         ELSE <<LBrack>> \o DumpNotes(d[k]) \o <<Ws, RBrack>>
                    ELSE <<Lit(d[k])>>
         IN <<Ws, Lit(Str(k)), Colon>> \o val
            \o (IF Len(keys) > 1 THEN <<Comma>> ELSE <<>>)
            \o DumpFields(Tail(keys), d)

DumpNotes(notes) ==
    IF notes = <<>> THEN <<>>
    ELSE <<Ws, LBrace>>
         \o DumpFields(KeySeq(DOMAIN Head(notes)), Head(notes))
         \o <<Ws, RBrace>>
         \o (IF Len(notes) > 1 THEN <<Comma>> ELSE <<>>)
         \o DumpNotes(Tail(notes))

\* json.dump of the nested dicts of an AlertState: depth 0 is the root
\* {"sites": ...}, 1 the sites, 2 a site {"matches": ...}, 3 its matches,
\* whose values are the match records.
RECURSIVE DumpDict(_, _, _)
DumpDict(keys, d, depth) ==
    IF keys = <<>> THEN <<>>
    ELSE LET k == Head(keys)
             inner == IF depth = 3
                      THEN DumpFields(KeySeq(DOMAIN d[k]), d[k])
                      ELSE DumpDict(KeySeq(DOMAIN d[k]), d[k], depth + 1)
             val == IF DOMAIN d[k] = {} THEN <<LBrace, RBrace>>
                    ELSE <<LBrace>> \o inner \o <<Ws, RBrace>>
         IN <<Ws, Lit(Str(k)), Colon>> \o val
            \o (IF Len(keys) > 1 THEN <<Comma>> ELSE <<>>)
            \o DumpDict(Tail(keys), d, depth)

\* json.dump(state, f, indent=2, ensure_ascii=False)
Dump(state) ==
    IF DOMAIN state = {} THEN <<LBrace, RBrace>>
    ELSE <<LBrace>> \o DumpDict(KeySeq(DOMAIN state), state, 0)
         \o <<Ws, RBrace>>

\* json.loads: a recursive-descent parse of the tokens.  A result is
\* [ok, v, ty, i]: whether a value was read, the value, its Python type
\* and the index of the first token after it.
RECURSIVE SkipWs(_, _)
SkipWs(t, i) == IF i <= Len(t) /\ t[i] = Ws THEN SkipWs(t, i + 1) ELSE i

ParseFail == [ok |-> FALSE, v |-> None, ty |-> "none", i |-> 0]

RECURSIVE ParseValue(_, _)
RECURSIVE ParseMembers(_, _, _)
RECURSIVE ParseElems(_, _, _)
ParseValue(t, i0) ==
    LET i == SkipWs(t, i0) IN
    IF i > Len(t) THEN ParseFail
    ELSE IF t[i] = LBrace
    THEN LET j == SkipWs(t, i + 1) IN
         IF j <= Len(t) /\ t[j] = RBrace
         THEN [ok |-> TRUE, v |-> EmptyDict, ty |-> "dict", i |-> j + 1]
         ELSE ParseMembers(t, j, EmptyDict)
    ELSE IF t[i] = LBrack
    THEN LET j == SkipWs(t, i + 1) IN
         IF j <= Len(t) /\ t[j] = RBrack
         THEN [ok |-> TRUE, v |-> <<>>, ty |-> "list", i |-> j + 1]
         ELSE ParseElems(t, j, <<>>)
    ELSE IF IsLit(t[i])
    THEN [ok |-> TRUE, v |-> t[i][2], ty |-> "scalar", i |-> i + 1]
    ELSE ParseFail

ParseMembers(t, i0, acc) ==
    LET i == SkipWs(t, i0) IN
    IF i > Len(t) \/ ~IsLit(t[i]) THEN ParseFail
    ELSE IF t[i][2][1] # "s" THEN ParseFail
    ELSE LET j == SkipWs(t, i + 1) IN
         IF j > Len(t) \/ t[j] # Colon THEN ParseFail
         ELSE LET r == ParseValue(t, j + 1) IN
              IF ~r.ok THEN ParseFail
              ELSE LET k == SkipWs(t, r.i)
                       acc2 == Put(acc, t[i][2][2], r.v)
                   IN IF k > Len(t) THEN ParseFail
                      ELSE IF t[k] = Comma THEN ParseMembers(t, k + 1, acc2)
                      ELSE IF t[k] = RBrace
                      THEN [ok |-> TRUE, v |-> acc2, ty |-> "dict", i |-> k + 1]
                      ELSE ParseFail

ParseElems(t, i0, acc) ==
    LET r == ParseValue(t, i0) IN
    IF ~r.ok THEN ParseFail
    ELSE LET k == SkipWs(t, r.i)
             acc2 == Append(acc, r.v)
         IN IF k > Len(t) THEN ParseFail
            ELSE IF t[k] = Comma THEN ParseElems(t, k + 1, acc2)
            ELSE IF t[k] = RBrack
            THEN [ok |-> TRUE, v |-> acc2, ty |-> "list", i |-> k + 1]
            ELSE ParseFail

\* json.loads(data): one value, then nothing but whitespace; anything else
\* is a JSONDecodeError (ok = FALSE).
Loads(t) ==
    LET r == ParseValue(t, 1) IN
    IF r.ok /\ SkipWs(t, r.i) > Len(t) THEN r ELSE ParseFail

\* str.strip(): the text without its leading and trailing whitespace.
RECURSIVE Strip(_)
Strip(t) ==
    IF t = <<>> THEN t
    ELSE IF Head(t) = Ws THEN Strip(Tail(t))
    ELSE IF t[Len(t)] = Ws THEN Strip(SubSeq(t, 1, Len(t) - 1))
    ELSE t

----------------------------------------------------------------------------
(* state.py *)

EmptyState == [sites |-> EmptyDict]

\* A file as load_state finds it: missing, or its text.
NoFile == [exists |-> FALSE, text |-> <<>>]
FileOf(text) == [exists |-> TRUE, text |-> text]

\* load_state(path).  The result is [exc, val, ty]: the exception that
\* escapes ("none" when the call returns), the value returned and its type.
Returned(v, ty) == [exc |-> "none", val |-> v, ty |-> ty]
Raised(e) == [exc |-> e, val |-> None, ty |-> "none"]

load_state(file) ==
    IF ~file.exists THEN Returned(EmptyState, "dict")
    ELSE IF \E i \in 1..Len(file.text) : file.text[i] = BadBytes
    THEN Raised("UnicodeDecodeError")
    ELSE LET stripped == Strip(file.text) IN
         IF stripped = <<>> THEN Returned(EmptyState, "dict")
         ELSE LET r == Loads(stripped) IN
              IF r.ok THEN Returned(r.v, r.ty)
              ELSE Returned(EmptyState, "dict")

\* save_state(path, state) and the files it touches: the path and path + ".tmp"
Files == {"path", "tmp"}
Inodes == {1, 2, 3, 4}

\* The threads that call the store: two threads that only save, the scan
\* run, the recheck job and a review request of the web application.
Threads == {"s1", "s2", "scan", "recheck", "web"}
Savers == {"s1", "s2"}

\* The scan run is a process of its own (python -m dmca_monitor.scan_and_alert);
\* the other threads live in the web application's process.  _LOCK is a
\* threading.Lock: there is one per process.
Procs == {"cli", "app"}
ProcOf(p) == IF p = "scan" THEN "cli" ELSE "app"

NoResult == [exc |-> "nocall", val |-> None, ty |-> "none"]

\* the temp file is the path itself
TmpIsPath == "path"

\* tmp = path + ".tmp"
TmpName == "tmp"

\* The file a name leads to.
FileAt(name) == IF names[name] = 0 THEN NoFile ELSE FileOf(data[names[name]])

\* An inode no name and no open file refers to.
FreeInode ==
    CHOOSE i \in Inodes :
       /\ \A f \in Files : names[f] # i
       /\ \A p \in Threads : fh[p] # i

\* write(2) of chunk at offset o of a file holding text: the bytes from o on
\* are overwritten, and a hole before o reads as NUL bytes, which no JSON
\* document contains.
WriteAt(text, o, chunk) ==
    LET n == IF Len(text) > o + Len(chunk) THEN Len(text) ELSE o + Len(chunk) IN
    [i \in 1..n |->
        IF i > o /\ i <= o + Len(chunk) THEN chunk[i - o]
        ELSE IF i <= Len(text) THEN text[i]
        ELSE Junk]

\* save_state(path, s) is entered by thread p: _ensure_dir, tmp = path + ".tmp"
EnterSave(p, s) ==
    /\ saves < MaxSaves
    /\ saves' = saves + 1
    /\ mem' = [mem EXCEPT ![p] = s]
    /\ prior' = [prior EXCEPT ![p] = load_state(FileAt("path"))]
    /\ pc' = [pc EXCEPT ![p] = "lock"]
    /\ UNCHANGED <<names, data, lock, fh, off, got, initial>>

\* save_state is called with state s
SaveBegin(p, s) ==
    /\ pc[p] \in {"idle", "saved", "failed", "crashed"}
    /\ EnterSave(p, s)
    /\ UNCHANGED <<clock, storeVars, probe, scanVars>>

\* with _LOCK, open(tmp, "w"): the lock is taken and the temp file is created,
\* or truncated when it exists
SaveOpen(p) ==
    /\ pc[p] = "lock"
    /\ lock[ProcOf(p)] = ""
    /\ lock' = [lock EXCEPT ![ProcOf(p)] = p]
    /\ LET i == IF names[TmpName] # 0 THEN names[TmpName] ELSE FreeInode IN
       /\ names' = [names EXCEPT ![TmpName] = i]
       /\ data' = [data EXCEPT ![i] = <<>>]
       /\ fh' = [fh EXCEPT ![p] = i]
    /\ off' = [off EXCEPT ![p] = 0]
    /\ pc' = [pc EXCEPT ![p] = "write"]
    /\ UNCHANGED <<mem, got, prior, initial, saves>>
    /\ UNCHANGED <<clock, storeVars, probe, scanVars>>

\* json.dump(state, f): the buffer is flushed to the file each time it is
\* full and when the file is closed; leaving the with block closes the file
\* and releases the lock.
SaveWrite(p) ==
    /\ pc[p] = "write"
    /\ LET text == Dump(mem[p])
           n == off[p] + FlushLen
       IN IF n < Len(text)
          THEN /\ data' = [data EXCEPT ![fh[p]] =
                              WriteAt(@, off[p], SubSeq(text, off[p] + 1, n))]
               /\ off' = [off EXCEPT ![p] = n]
               /\ UNCHANGED <<lock, fh, pc>>
          ELSE /\ data' = [data EXCEPT ![fh[p]] =
                              WriteAt(@, off[p], SubSeq(text, off[p] + 1, Len(text)))]
               /\ off' = [off EXCEPT ![p] = 0]
               /\ lock' = [lock EXCEPT ![ProcOf(p)] = ""]
               /\ fh' = [fh EXCEPT ![p] = 0]
               /\ pc' = [pc EXCEPT ![p] = "replace"]
    /\ UNCHANGED <<names, mem, got, prior, initial, saves>>
    /\ UNCHANGED <<clock, storeVars, probe, scanVars>>

\* os.replace(tmp, path): the path now names the temp file's inode and the
\* temp name is gone; FileNotFoundError when there is no temp file
SaveReplace(p) ==
    /\ pc[p] = "replace"
    /\ IF names[TmpName] = 0
       THEN /\ pc' = [pc EXCEPT ![p] = "failed"]
            /\ UNCHANGED <<names, data>>
       ELSE /\ pc' = [pc EXCEPT ![p] = "saved"]
            /\ names' = [f \in Files |->
                           IF f = "path" THEN names[TmpName]
                           ELSE IF f = TmpName THEN 0
                           ELSE names[f]]
            /\ data' = [i \in Inodes |->
                          IF /\ i = names["path"]
                             /\ i # names[TmpName]
                             /\ \A q \in Threads : fh[q] # i
                          THEN <<>> ELSE data[i]]
    /\ UNCHANGED <<lock, mem, fh, off, got, prior, initial, saves>>
    /\ UNCHANGED <<clock, storeVars, probe, scanVars>>

\* The process is killed while thread p is inside save_state: what was
\* flushed stays in the file, the lock dies with the process.
Crash(p) ==
    /\ pc[p] \in {"lock", "write", "replace"}
    /\ pc' = [pc EXCEPT ![p] = "crashed"]
    /\ lock' = [lock EXCEPT ![ProcOf(p)] = IF @ = p THEN "" ELSE @]
    /\ fh' = [fh EXCEPT ![p] = 0]
    /\ off' = [off EXCEPT ![p] = 0]
    /\ UNCHANGED <<names, data, mem, got, prior, initial, saves>>
    /\ UNCHANGED <<clock, storeVars, probe, scanVars>>

\* load_state(path) is called
Load ==
    /\ got' = load_state(FileAt("path"))
    /\ UNCHANGED <<names, data, lock, pc, mem, fh, off, prior, initial, saves>>
    /\ UNCHANGED <<clock, storeVars, probe, scanVars>>

\* state["sites"][base]["matches"], empty when the site is absent
MatchesOf(state, base) ==
    LET sites == Get(state, "sites", EmptyDict) IN
    IF base \in DOMAIN sites THEN sites[base].matches ELSE EmptyDict

HasMatch(state, base, url) == url \in DOMAIN MatchesOf(state, base)

\* state["sites"][base]["matches"][url], for a record that is present
MatchAt(state, base, url) == state.sites[base].matches[url]

\* state.setdefault("sites", {}).setdefault(base, {"matches": {}}) followed by
\* site["matches"][url] = rec
SetMatch(state, base, url, rec) ==
    LET sites == Get(state, "sites", EmptyDict)
        site == Get(sites, base, [matches |-> EmptyDict])
    IN Put(state, "sites",
           Put(sites, base, Put(site, "matches", Put(site.matches, url, rec))))

\* The (site, url) keys of all match records (iter_matches_from_state).
AllKeys(state) ==
    LET sites == Get(state, "sites", EmptyDict) IN
    UNION {{<<d, u>> : u \in DOMAIN sites[d].matches} : d \in DOMAIN sites}

ProvFields == {"host_page", "term", "matched_known_file", "saved_copy"}

\* UpsertExisting with first_seen_utc set on every call
UpsertExistingResetsFirstSeen(m, payload, now) ==
    LET given == {k \in ProvFields : Truthy(Get(payload, k, None))} IN
    [k \in DOMAIN m \cup {"last_seen_utc", "seen_count"} \cup given |->
        IF k = "last_seen_utc" \/ k = "first_seen_utc" THEN now
        ELSE IF k = "seen_count" THEN Num(Get(m, "seen_count", Num(1))[2] + 1)
        ELSE IF k \in given THEN payload[k]
        ELSE m[k]]

\* UpsertExisting with m[k] = payload.get(k) for every provenance field
UpsertExistingOverwritesAll(m, payload, now) ==
    [k \in DOMAIN m \cup {"last_seen_utc", "seen_count"} \cup ProvFields |->
        IF k = "last_seen_utc" THEN now
        ELSE IF k = "seen_count" THEN Num(Get(m, "seen_count", Num(1))[2] + 1)
        ELSE IF k \in ProvFields THEN Get(payload, k, None)
        ELSE m[k]]

\* UpsertExisting with the status set back to "new"
UpsertExisting_status_new(m, payload, now) ==
    LET given == {k \in ProvFields : Truthy(Get(payload, k, None))} IN
    [k \in DOMAIN m \cup {"last_seen_utc", "seen_count"} \cup given |->
        IF k = "last_seen_utc" THEN now
        ELSE IF k = "seen_count" THEN Num(Get(m, "seen_count", Num(1))[2] + 1)
        ELSE IF k = "status" THEN Str("new")
        ELSE IF k \in given THEN payload[k]
        ELSE m[k]]

\* upsert_match, the branch for a record that exists (m is truthy)
UpsertExisting(m, payload, now) ==
    LET given == {k \in ProvFields : Truthy(Get(payload, k, None))} IN
    [k \in DOMAIN m \cup {"last_seen_utc", "seen_count"} \cup given |->
        IF k = "last_seen_utc" THEN now
        ELSE IF k = "seen_count" THEN Num(Get(m, "seen_count", Num(1))[2] + 1)
        ELSE IF k \in given THEN payload[k]
        ELSE m[k]]

\* UpsertNew with the count starting at 0
UpsertNewCountsFromZero(payload, now) ==
    [status |-> Str("new"),
     muted |-> Bool(FALSE),
     notes |-> <<>>,
     first_seen_utc |-> now,
     last_seen_utc |-> now,
     seen_count |-> Num(0),
     host_page |-> Get(payload, "host_page", None),
     term |-> Get(payload, "term", None),
     matched_known_file |-> Get(payload, "matched_known_file", None),
     saved_copy |-> Get(payload, "saved_copy", None)]

\* upsert_match, the branch that creates the record
UpsertNew(payload, now) ==
    [status |-> Str("new"),
     muted |-> Bool(FALSE),
     notes |-> <<>>,
     first_seen_utc |-> now,
     last_seen_utc |-> now,
     seen_count |-> Num(1),
     host_page |-> Get(payload, "host_page", None),
     term |-> Get(payload, "term", None),
     matched_known_file |-> Get(payload, "matched_known_file", None),
     saved_copy |-> Get(payload, "saved_copy", None)]

\* payload.get("timestamp_utc") or time.strftime(...): wall is the wall clock
UpsertNow(payload, wall) ==
    IF Truthy(Get(payload, "timestamp_utc", None)) THEN payload.timestamp_utc
    ELSE Ts(wall)

\* upsert_match(state, base, image_url, payload): the state after the call;
\* the record returned is MatchAt(that state, base, image_url).
upsert_match(state, base, image_url, payload, wall) ==
    LET now == UpsertNow(payload, wall)
        m == Get(MatchesOf(state, base), image_url, EmptyDict)
    IN SetMatch(state, base, image_url,
                IF DOMAIN m # {} THEN UpsertExisting(m, payload, now)
                ELSE UpsertNew(payload, now))

----------------------------------------------------------------------------
(* checker.py *)

BATCH_LIMIT == 500

\* Texts that TAKEDOWN_HINTS.search finds a match in, among the bodies the
\* model serves.
TAKEDOWN_HINTS(text) ==
    text \in {"This image was removed due to copyright", "DMCA notice",
              "Page Not Found"}

\* looks_gone answering TRUE for every 4xx code
looks_gone_any_4xx(code, text) ==
    IF 400 <= code /\ code < 500 THEN TRUE
    ELSE IF 300 <= code /\ code < 400 THEN FALSE
    ELSE IF code = 200 /\ Truthy(text) /\ TAKEDOWN_HINTS(text[2]) THEN TRUE
    ELSE FALSE

looks_gone(code, text) ==
    IF code \in {404, 410, 451} THEN TRUE
    ELSE IF code \in {401, 403} THEN FALSE
    ELSE IF 300 <= code /\ code < 400 THEN FALSE
    ELSE IF code = 200 /\ Truthy(text) /\ TAKEDOWN_HINTS(text[2]) THEN TRUE
    ELSE FALSE

\* fetch_status(url): (http_status, body_text_if_html, fail_reason) for what
\* requests.get does: a response [code, ctype, body], or an exception.
\* "text" in ctype, for the content types the model serves
HasText(ctype) == ctype \in {"text/html", "text/plain; charset=utf-8"}

fetch_status(resp) ==
    IF resp.kind = "response"
    THEN [code |-> Num(resp.code),
          text |-> IF HasText(resp.ctype) /\ 200 <= resp.code /\ resp.code < 400
                   THEN Str(resp.body) ELSE None,
          fail |-> None]
    ELSE IF resp.kind = "RequestException"
    THEN [code |-> None, text |-> None, fail |-> Str("http_error:ConnectionError")]
    ELSE [code |-> None, text |-> None, fail |-> Str("unknown_error:ValueError")]

\* check_one recording no removal time for a gone URL
check_one_gone_untimed(resp, now) ==
    LET f == fetch_status(resp)
        out == [http_status |-> f.code, fail_reason |-> f.fail,
                last_checked_utc |-> Ts(now), last_seen_utc |-> None,
                removed_at_utc |-> None, status |-> None]
    IN IF f.fail # None THEN [out EXCEPT !.status = Str("error")]
       ELSE IF looks_gone(IF Truthy(f.code) THEN f.code[2] ELSE 0, f.text)
       THEN [out EXCEPT !.status = Str("gone")]
       ELSE [out EXCEPT !.status = Str("up"), !.last_seen_utc = Ts(now)]

\* check_one(image_url), given what the fetch did and the time it ended
check_one(resp, now) ==
    LET f == fetch_status(resp)
        out == [http_status |-> f.code, fail_reason |-> f.fail,
                last_checked_utc |-> Ts(now), last_seen_utc |-> None,
                removed_at_utc |-> None, status |-> None]
    IN IF f.fail # None THEN [out EXCEPT !.status = Str("error")]
       ELSE IF looks_gone(IF Truthy(f.code) THEN f.code[2] ELSE 0, f.text)
       THEN [out EXCEPT !.status = Str("gone"), !.removed_at_utc = Ts(now)]
       ELSE [out EXCEPT !.status = Str("up"), !.last_seen_utc = Ts(now)]

\* The result for a future that raised, without the reason
WorkerError_no_reason(now) ==
    [http_status |-> None, fail_reason |-> None,
     last_checked_utc |-> Ts(now), last_seen_utc |-> None,
     removed_at_utc |-> None, status |-> Str("error")]

\* run_once: the result recorded for a future that raised
WorkerError(now) ==
    [http_status |-> None, fail_reason |-> Str("worker_error:RuntimeError"),
     last_checked_utc |-> Ts(now), last_seen_utc |-> None,
     removed_at_utc |-> None, status |-> Str("error")]

\* The targets loop breaking at i > limit
FirstTargets_one_more(state, limit) ==
    LET all == KeySeq(AllKeys(state)) IN
    IF Len(all) <= limit + 1 THEN all ELSE SubSeq(all, 1, limit + 1)

\* run_once, the targets loop: enumerate(iter_matches_from_state(state)),
\* with a break at i >= limit
FirstTargets(state, limit) ==
    LET all == KeySeq(AllKeys(state)) IN
    IF Len(all) <= limit THEN all ELSE SubSeq(all, 1, limit)

\* run_once: the first BATCH_LIMIT (domain, image_url) of the state
Targets(state) == FirstTargets(state, BATCH_LIMIT)

\* The merge leaving the status of an acknowledged or closed record alone
\* on an error result too
MergeOne_error_keeps_manual(meta, res) ==
    LET m1 == Put(Put(Put(meta, "http_status", res.http_status),
                      "fail_reason", res.fail_reason),
                  "last_checked_utc", res.last_checked_utc)
        manual == Get(meta, "status", None) \in {Str("closed"), Str("ack")}
    IN IF res.status = Str("up")
       THEN Pop(Put(Put(m1, "status", IF manual THEN meta.status ELSE Str("up")),
                    "last_seen_utc", res.last_seen_utc),
                "removed_at_utc")
       ELSE IF res.status = Str("gone")
       THEN Put(IF manual THEN m1 ELSE Put(m1, "status", Str("gone")),
                "removed_at_utc", res.removed_at_utc)
       ELSE IF manual THEN m1 ELSE Put(m1, "status", Str("error"))

\* The merge building the record from the result alone
MergeOne_rebuilds_record(meta, res) ==
    LET m1 == [http_status |-> res.http_status, fail_reason |-> res.fail_reason,
               last_checked_utc |-> res.last_checked_utc]
        manual == Get(meta, "status", None) \in {Str("closed"), Str("ack")}
    IN IF res.status = Str("up")
       THEN Put(Put(m1, "status", IF manual THEN meta.status ELSE Str("up")),
                "last_seen_utc", res.last_seen_utc)
       ELSE IF res.status = Str("gone")
       THEN Put(Put(m1, "status", IF manual THEN meta.status ELSE Str("gone")),
                "removed_at_utc", res.removed_at_utc)
       ELSE Put(m1, "status", Str("error"))

\* The merge leaving the times of an acknowledged or closed record alone
MergeOne_manual_frozen(meta, res) ==
    LET m1 == Put(Put(Put(meta, "http_status", res.http_status),
                      "fail_reason", res.fail_reason),
                  "last_checked_utc", res.last_checked_utc)
        manual == Get(meta, "status", None) \in {Str("closed"), Str("ack")}
    IN IF manual /\ res.status \in {Str("up"), Str("gone")} THEN m1
       ELSE IF res.status = Str("up")
       THEN Pop(Put(Put(m1, "status", Str("up")), "last_seen_utc", res.last_seen_utc),
                "removed_at_utc")
       ELSE IF res.status = Str("gone")
       THEN Put(Put(m1, "status", Str("gone")), "removed_at_utc", res.removed_at_utc)
       ELSE Put(m1, "status", Str("error"))

\* run_once, the merge of one result into its record
MergeOne(meta, res) ==
    LET m1 == Put(Put(Put(meta, "http_status", res.http_status),
                      "fail_reason", res.fail_reason),
                  "last_checked_utc", res.last_checked_utc)
        manual == Get(meta, "status", None) \in {Str("closed"), Str("ack")}
    IN IF res.status = Str("up")
       THEN Pop(Put(Put(m1, "status", IF manual THEN meta.status ELSE Str("up")),
                    "last_seen_utc", res.last_seen_utc),
                "removed_at_utc")
       ELSE IF res.status = Str("gone")
       THEN Put(IF manual THEN m1 ELSE Put(m1, "status", Str("gone")),
                "removed_at_utc", res.removed_at_utc)
       ELSE Put(m1, "status", Str("error"))

\* run_once, "merge back into state": every result, in the order given
RECURSIVE MergeAll(_, _, _)
MergeAll(state, keys, results) ==
    IF keys = <<>> THEN state
    ELSE LET k == Head(keys)
             meta == Get(MatchesOf(state, k[1]), k[2], EmptyDict)
         IN MergeAll(SetMatch(state, k[1], k[2], MergeOne(meta, results[k])),
                     Tail(keys), results)

----------------------------------------------------------------------------
(* app.py: the review actions' mutation of the record *)

\* ack_match: m["status"] = "ack"
AckRecord(m) == Put(m, "status", Str("ack"))

\* close_match: m["status"] = "closed"
CloseRecord(m) == Put(m, "status", Str("closed"))

\* mute_match: m["muted"] = not bool(m.get("muted"))
MuteRecord(m) == Put(m, "muted", Bool(~Truthy(Get(m, "muted", None))))

\* note_match's change of the record with the earlier notes dropped
NoteRecord_replaces(m, text, now) ==
    Put(m, "notes", <<[ts |-> Ts(now), text |-> Str(text)]>>)

\* note_match: m.setdefault("notes", []).append({"ts": ts, "text": text})
NoteRecord(m, text, now) ==
    Put(m, "notes", Append(Get(m, "notes", <<>>), [ts |-> Ts(now), text |-> Str(text)]))

----------------------------------------------------------------------------
(* SpecStore: the store's operations applied one after another to one      *)
(* AlertState: upsert_match, the review actions' mutations of a record     *)
(* that exists, and run_once's merge of a batch of results.                *)

Sites == {"a.com", "b.org"}
Urls == {"http://a.com/1.jpg", "http://cdn.net/2.jpg"}
StoreKeys == {<<"a.com", "http://a.com/1.jpg">>,
              <<"a.com", "http://cdn.net/2.jpg">>,
              <<"b.org", "http://cdn.net/2.jpg">>}

\* The provenance a caller passes: a full audit row, a row of a match with
\* no host page whose local copy could not be saved, and the payload
\* _ensure_match_in_state builds when the audit log has no row.
Provenances ==
    {[host_page |-> Str("http://a.com/page"), term |-> Str("cat"),
      matched_known_file |-> Str("ref/1.png"), saved_copy |-> Str("dl/1.jpg")],
     [host_page |-> Str(""), term |-> Str("dog"),
      matched_known_file |-> Str("ref/2.png"), saved_copy |-> Str("")],
     [host_page |-> None, term |-> None,
      matched_known_file |-> None, saved_copy |-> None]}

\* The timestamp is the caller's (the scan run's "now", an audit row's) or
\* missing.
Payloads(now) ==
    {Put(p, "timestamp_utc", t) : p \in Provenances, t \in {None, Ts(now)}}

\* What a fetch can do.
Fetches ==
    {[kind |-> "response", code |-> 200, ctype |-> "image/jpeg", body |-> ""],
     [kind |-> "response", code |-> 404, ctype |-> "text/html", body |-> "Page Not Found"],
     [kind |-> "RequestException"]}

\* The results a worker can deliver at instant now.
Outcomes(now) == {check_one(f, now) : f \in Fetches} \cup {WorkerError(now)}

NoCalls == [n |-> 0, first |-> None]

\* No fetch was made and no scan run started.
NoProbe == [resp |-> [kind |-> "none"], done |-> FALSE, out |-> None]
NoCfg == [variant |-> "none"]
NoDisk == [seen |-> {}]
NoCand == [img |-> "", host |-> ""]
NoRun ==
    [stage |-> "idle", n |-> 0, rounds |-> 0, seen_urls |-> {}, seen_at_start |-> {},
     queue |-> <<>>, cur |-> NoCand, grouped |-> <<>>, pending |-> <<>>,
     delivery |-> ""]

ScanIdle ==
    /\ probe = NoProbe
    /\ cfg = NoCfg
    /\ disk = NoDisk
    /\ run = NoRun
    /\ events = <<>>

\* No file, no thread: the file system as the store-level specification
\* leaves it.
FsIdle ==
    /\ names = [f \in Files |-> 0]
    /\ data = [i \in Inodes |-> <<>>]
    /\ lock = [q \in Procs |-> ""]
    /\ pc = [p \in Threads |-> "idle"]
    /\ mem = [p \in Threads |-> EmptyState]
    /\ fh = [p \in Threads |-> 0]
    /\ off = [p \in Threads |-> 0]
    /\ got = NoResult
    /\ prior = [p \in Threads |-> NoResult]
    /\ initial = NoFile
    /\ saves = 0

InitStore ==
    /\ ScanIdle
    /\ clock = 1
    /\ alerts = EmptyState
    /\ call = [op |-> "init"]
    /\ ops = 0
    /\ hist = [k \in StoreKeys |-> NoCalls]
    /\ FsIdle

Tick ==
    /\ clock < MaxClock
    /\ clock' = clock + 1
    /\ UNCHANGED <<storeVars, fsVars, probe, scanVars>>

Upsert(k, payload) ==
    /\ ops < MaxOps
    /\ alerts' = upsert_match(alerts, k[1], k[2], payload, clock)
    /\ call' = [op |-> "upsert", key |-> k, payload |-> payload, wall |-> clock,
                existed |-> HasMatch(alerts, k[1], k[2])]
    /\ hist' = [hist EXCEPT ![k] =
                  [n |-> @.n + 1,
                   first |-> IF @.n = 0 THEN UpsertNow(payload, clock) ELSE @.first]]
    /\ ops' = ops + 1
    /\ UNCHANGED <<clock, fsVars, probe, scanVars>>

\* A review action's mutation, on a record that exists.
Mutate(k, op, rec) ==
    /\ ops < MaxOps
    /\ HasMatch(alerts, k[1], k[2])
    /\ alerts' = SetMatch(alerts, k[1], k[2], rec)
    /\ call' = [op |-> op, key |-> k]
    /\ ops' = ops + 1
    /\ UNCHANGED <<clock, hist, fsVars, probe, scanVars>>

Ack(k) == Mutate(k, "ack", AckRecord(MatchAt(alerts, k[1], k[2])))

Close(k) == Mutate(k, "close", CloseRecord(MatchAt(alerts, k[1], k[2])))

Mute(k) == Mutate(k, "mute", MuteRecord(MatchAt(alerts, k[1], k[2])))

Note(k) == Mutate(k, "note", NoteRecord(MatchAt(alerts, k[1], k[2]), "seen", clock))

\* run_once on the state: one result per target, merged back.
Merge ==
    /\ ops < MaxOps
    /\ Targets(alerts) # <<>>
    /\ LET targets == Targets(alerts) IN
       \E results \in [{targets[i] : i \in 1..Len(targets)} -> Outcomes(clock)] :
          /\ alerts' = MergeAll(alerts, targets, results)
          /\ call' = [op |-> "merge"]
    /\ ops' = ops + 1
    /\ UNCHANGED <<clock, hist, fsVars, probe, scanVars>>

NextStore ==
    \/ Tick
    \/ \E k \in StoreKeys : \E p \in Payloads(clock) : Upsert(k, p)
    \/ \E k \in StoreKeys : Ack(k)
    \/ \E k \in StoreKeys : Close(k)
    \/ \E k \in StoreKeys : Mute(k)
    \/ \E k \in StoreKeys : Note(k)
    \/ Merge

SpecStore == InitStore /\ [][NextStore]_vars

----------------------------------------------------------------------------
(* SpecFS: two threads of one process call save_state on the same path     *)
(* while load_state is called, starting from any file a run can find at    *)
(* the path.  SpecCrash: one thread saves, and the process can be killed   *)
(* inside save_state.                                                      *)

FullRow ==
    [timestamp_utc |-> Ts(1), host_page |-> Str("http://a.com/page"),
     term |-> Str("cat"), matched_known_file |-> Str("ref/1.png"),
     saved_copy |-> Str("dl/1.jpg")]

NoRow ==
    [timestamp_utc |-> None, host_page |-> None, term |-> None,
     matched_known_file |-> None, saved_copy |-> None]

\* The state after a scan run recorded one match.
DocOne == upsert_match(EmptyState, "a.com", "http://a.com/1.jpg", FullRow, 1)

\* The state after, in addition, a review action on a URL without an audit
\* row, an acknowledgement with a note, and a recheck.
DocReviewed ==
    LET k1 == <<"a.com", "http://a.com/1.jpg">>
        k2 == <<"b.org", "http://cdn.net/2.jpg">>
        d2 == upsert_match(DocOne, k2[1], k2[2], NoRow, 2)
        d3 == SetMatch(d2, k1[1], k1[2],
                       NoteRecord(AckRecord(MatchAt(d2, k1[1], k1[2])), "seen", 2))
        results == (k1 :> check_one([kind |-> "response", code |-> 404,
                                     ctype |-> "text/html", body |-> "Page Not Found"], 2))
                   @@ (k2 :> check_one([kind |-> "RequestException"], 2))
    IN MergeAll(d3, Targets(d3), results)

Docs == {EmptyState, DocOne, DocReviewed}

\* Every complete serialization a save_state call can be handed.
DocTexts == {Dump(d) : d \in Docs}

\* The files a run can find at the path: none, an empty or blank one, a
\* saved document, a truncated one, and files that are not an AlertState
\* document: "null", "[]", text that is not JSON, bytes that are not UTF-8.
InitialFiles ==
    {NoFile, FileOf(<<>>), FileOf(<<Ws>>),
     FileOf(Dump(DocOne)), FileOf(SubSeq(Dump(DocOne), 1, 20)),
     FileOf(<<Lit(None)>>), FileOf(<<LBrack, RBrack>>),
     FileOf(<<Junk>>), FileOf(<<BadBytes>>)}

StoreIdle ==
    /\ clock = 1
    /\ alerts = EmptyState
    /\ call = [op |-> "init"]
    /\ ops = 0
    /\ hist = [k \in StoreKeys |-> NoCalls]

InitFS ==
    /\ StoreIdle
    /\ initial \in InitialFiles
    /\ names = [f \in Files |-> IF f = "path" /\ initial.exists THEN 1 ELSE 0]
    /\ data = [i \in Inodes |-> IF i = 1 THEN initial.text ELSE <<>>]
    /\ lock = [q \in Procs |-> ""]
    /\ pc = [p \in Threads |-> "idle"]
    /\ mem = [p \in Threads |-> EmptyState]
    /\ fh = [p \in Threads |-> 0]
    /\ off = [p \in Threads |-> 0]
    /\ got = NoResult
    /\ prior = [p \in Threads |-> NoResult]
    /\ saves = 0
    /\ ScanIdle

NextFS ==
    \/ \E p \in Savers : \E s \in Docs : SaveBegin(p, s)
    \/ \E p \in Savers : SaveOpen(p)
    \/ \E p \in Savers : SaveWrite(p)
    \/ \E p \in Savers : SaveReplace(p)
    \/ Load

SpecFS == InitFS /\ [][NextFS]_vars

NextCrash ==
    \/ \E s \in Docs : SaveBegin("s1", s)
    \/ SaveOpen("s1")
    \/ SaveWrite("s1")
    \/ SaveReplace("s1")
    \/ Crash("s1")
    \/ Load

SpecCrash == InitFS /\ [][NextCrash]_vars

----------------------------------------------------------------------------
(* Spec: a scan run, the recheck job and a review request run concurrently *)
(* on the alert document.  Each loads the document, changes its copy in    *)
(* memory and saves it; what a thread does between its load and its save   *)
(* touches nothing the others see, so it is one step.                      *)

Handlers == {"scan", "recheck", "web"}

\* The matches a scan run can find, and the record a review request names.
ScanKeys == {<<"a.com", "http://a.com/1.jpg">>, <<"b.org", "http://cdn.net/2.jpg">>}

\* The audit row of a match found at instant now.
ScanRow(k, now) ==
    [timestamp_utc |-> Ts(now),
     host_page |-> Str(IF k[1] = "a.com" THEN "http://a.com/page" ELSE "http://b.org/page"),
     term |-> Str("cat"), matched_known_file |-> Str("ref/1.png"),
     saved_copy |-> Str("dl/1.jpg")]

\* The loop over the candidates of a run: upsert_match for every match found
RECURSIVE UpsertAll(_, _, _)
UpsertAll(state, keys, now) ==
    IF keys = <<>> THEN state
    ELSE LET k == Head(keys) IN
         UpsertAll(upsert_match(state, k[1], k[2], ScanRow(k, now), now),
                   Tail(keys), now)

\* _ensure_match_in_state: the record is created from the audit row, or
\* from a row of None when the audit log has none, if the state lacks it
EnsureMatch(state, k, row, wall) ==
    IF HasMatch(state, k[1], k[2]) THEN state
    ELSE upsert_match(state, k[1], k[2], row, wall)

\* Each of the three runs once.
CanStart(p) == pc[p] = "idle"

\* The handler of thread p loads the document; a value that is not a dict,
\* or an exception of load_state, ends the handler with an exception.
LoadInto(p, next) ==
    LET r == load_state(FileAt("path")) IN
    IF r.exc = "none" /\ r.ty = "dict"
    THEN /\ mem' = [mem EXCEPT ![p] = r.val]
         /\ pc' = [pc EXCEPT ![p] = next]
    ELSE /\ pc' = [pc EXCEPT ![p] = "failed"]
         /\ UNCHANGED mem

\* scan_and_alert.main: alerts = load_state(alerts_state_path)
ScanLoad ==
    /\ CanStart("scan")
    /\ LoadInto("scan", "scanning")
    /\ UNCHANGED <<names, data, lock, fh, off, got, prior, initial, saves>>
    /\ UNCHANGED <<clock, storeVars, probe, scanVars>>

\* scan_and_alert.main: the matches found are upserted into the copy
ScanMatches ==
    /\ pc["scan"] = "scanning"
    /\ \E found \in SUBSET ScanKeys :
          mem' = [mem EXCEPT !["scan"] = UpsertAll(@, KeySeq(found), clock)]
    /\ pc' = [pc EXCEPT !["scan"] = "ready"]
    /\ UNCHANGED <<names, data, lock, fh, off, got, prior, initial, saves>>
    /\ UNCHANGED <<clock, storeVars, probe, scanVars>>

\* scan_and_alert.main: save_state(alerts_state_path, alerts)
ScanPersist ==
    /\ pc["scan"] = "ready"
    /\ EnterSave("scan", mem["scan"])
    /\ UNCHANGED <<clock, storeVars, probe, scanVars>>

\* run_once: state = get_state(), the targets are listed; return 0 when
\* there is none
RecheckGet ==
    /\ CanStart("recheck")
    /\ LET r == load_state(FileAt("path")) IN
       IF r.exc = "none" /\ r.ty = "dict" /\ Targets(r.val) = <<>>
       THEN /\ mem' = [mem EXCEPT !["recheck"] = r.val]
            /\ pc' = [pc EXCEPT !["recheck"] = "done"]
       ELSE LoadInto("recheck", "checking")
    /\ UNCHANGED <<names, data, lock, fh, off, got, prior, initial, saves>>
    /\ UNCHANGED <<clock, storeVars, probe, scanVars>>

\* run_once: the workers' results are merged into the copy
RecheckMerge ==
    /\ pc["recheck"] = "checking"
    /\ LET targets == Targets(mem["recheck"]) IN
       \E results \in [{targets[i] : i \in 1..Len(targets)}
                         -> {check_one(f, clock) : f \in Fetches}] :
          mem' = [mem EXCEPT !["recheck"] = MergeAll(@, targets, results)]
    /\ pc' = [pc EXCEPT !["recheck"] = "ready"]
    /\ UNCHANGED <<names, data, lock, fh, off, got, prior, initial, saves>>
    /\ UNCHANGED <<clock, storeVars, probe, scanVars>>

\* run_once: set_state(state)
RecheckSet ==
    /\ pc["recheck"] = "ready"
    /\ EnterSave("recheck", mem["recheck"])
    /\ UNCHANGED <<clock, storeVars, probe, scanVars>>

\* What the review handler named op does to the record
Changed(m, op) ==
    CASE op = "ack" -> AckRecord(m)
      [] op = "close" -> CloseRecord(m)
      [] op = "mute" -> MuteRecord(m)
      [] op = "note" -> NoteRecord(m, "seen", clock)

\* A review handler up to its set_state: _ensure_match_in_state, then the
\* change of the record
Review(k, row, op) ==
    /\ CanStart("web")
    /\ LET r == load_state(FileAt("path")) IN
       IF r.exc = "none" /\ r.ty = "dict"
       THEN LET s == EnsureMatch(r.val, k, row, clock) IN
            /\ mem' = [mem EXCEPT !["web"] =
                          SetMatch(s, k[1], k[2], Changed(MatchAt(s, k[1], k[2]), op))]
            /\ pc' = [pc EXCEPT !["web"] = "ready"]
       ELSE /\ pc' = [pc EXCEPT !["web"] = "failed"]
            /\ UNCHANGED mem
    /\ UNCHANGED <<names, data, lock, fh, off, got, prior, initial, saves>>
    /\ UNCHANGED <<clock, storeVars, probe, scanVars>>

\* The row read_logs() has for the record: the scan's, or none.
AuditRows(k) == {NoRow, ScanRow(k, clock)}

ack_match == \E k \in ScanKeys : \E row \in AuditRows(k) : Review(k, row, "ack")

close_match == \E k \in ScanKeys : \E row \in AuditRows(k) : Review(k, row, "close")

mute_match == \E k \in ScanKeys : \E row \in AuditRows(k) : Review(k, row, "mute")

note_match == \E k \in ScanKeys : \E row \in AuditRows(k) : Review(k, row, "note")

\* The review handler's set_state(s)
WebSet ==
    /\ pc["web"] = "ready"
    /\ EnterSave("web", mem["web"])
    /\ UNCHANGED <<clock, storeVars, probe, scanVars>>

\* The document was saved at instant 1, or there is none yet; it is now
\* instant 2.
Init ==
    /\ clock = 2
    /\ alerts = EmptyState
    /\ call = [op |-> "init"]
    /\ ops = 0
    /\ hist = [k \in StoreKeys |-> NoCalls]
    /\ initial \in {NoFile, FileOf(Dump(DocOne))}
    /\ names = [f \in Files |-> IF f = "path" /\ initial.exists THEN 1 ELSE 0]
    /\ data = [i \in Inodes |-> IF i = 1 THEN initial.text ELSE <<>>]
    /\ lock = [q \in Procs |-> ""]
    /\ pc = [p \in Threads |-> "idle"]
    /\ mem = [p \in Threads |-> EmptyState]
    /\ fh = [p \in Threads |-> 0]
    /\ off = [p \in Threads |-> 0]
    /\ got = NoResult
    /\ prior = [p \in Threads |-> NoResult]
    /\ saves = 0
    /\ ScanIdle

Next ==
    \/ ScanLoad
    \/ ScanMatches
    \/ ScanPersist
    \/ RecheckGet
    \/ RecheckMerge
    \/ RecheckSet
    \/ ack_match
    \/ close_match
    \/ mute_match
    \/ note_match
    \/ WebSet
    \/ \E p \in Handlers : SaveOpen(p)
    \/ \E p \in Handlers : SaveWrite(p)
    \/ \E p \in Handlers : SaveReplace(p)

Spec == Init /\ [][Next]_vars

----------------------------------------------------------------------------
(* The scan run: scan_and_alert.main and the helpers it calls.  A string   *)
(* the code takes apart (a URL's netloc, a configured domain) is the       *)
(* sequence of its labels and separators, so that ==, endswith and lstrip  *)
(* are computed on it.                                                     *)

\* urlparse(u).netloc of the URLs the searches return; "" has none.
Netloc(u) ==
    CASE u = "http://a.com/1.jpg" -> <<"a", ".", "com">>
      [] u = "http://a.com/page" -> <<"a", ".", "com">>
      [] u = "http://cdn.net/2.jpg" -> <<"cdn", ".", "net">>
      [] u = "http://b.org/page" -> <<"b", ".", "org">>
      [] u = "http://img.bad.com/3.jpg" -> <<"img", ".", "bad", ".", "com">>
      [] u = "http://BAD.com/gallery" -> <<"BAD", ".", "com">>
      [] u = "http://bad.com:8080/4.jpg" -> <<"bad", ".", "com", ":", "8080">>
      [] OTHER -> <<>>

\* urlparse(u).hostname: the host the URL names, lowercased, without port.
Hostname(u) ==
    LET n == Netloc(u)
        h == IF \E i \in 1..Len(n) : n[i] = ":"
             THEN SubSeq(n, 1, (CHOOSE i \in 1..Len(n) : n[i] = ":") - 1)
             ELSE n
    IN [i \in 1..Len(h) |-> IF h[i] = "BAD" THEN "bad" ELSE h[i]]

\* str.lower()
Lower(t) == [i \in 1..Len(t) |-> IF t[i] = "BAD" THEN "bad" ELSE t[i]]

\* str.lstrip(".")
RECURSIVE LStripDots(_)
LStripDots(t) == IF t # <<>> /\ Head(t) = "." THEN LStripDots(Tail(t)) ELSE t

\* str.endswith(suffix)
EndsWith(t, suffix) ==
    /\ Len(t) >= Len(suffix)
    /\ SubSeq(t, Len(t) - Len(suffix) + 1, Len(t)) = suffix

\* host_of(u): (urlparse(u or "").netloc or "").lower()
host_of(u) == Lower(Netloc(u))

\* load_excluded(cfg): {d.lstrip(".").lower() for d in xs}
load_excluded(xs) == {Lower(LStripDots(d)) : d \in xs}

\* is_excluded(u, excluded): any(h == d or h.endswith("." + d) for d in excluded)
is_excluded(u, excluded) ==
    LET h == host_of(u) IN
    \E d \in excluded : h = d \/ EndsWith(h, <<".">> \o d)

\* The key of the site in the alert state for a netloc, as a str.
SiteName(t) ==
    CASE t = <<"a", ".", "com">> -> "a.com"
      [] t = <<"b", ".", "org">> -> "b.org"
      [] t = <<"cdn", ".", "net">> -> "cdn.net"
      [] t = <<"img", ".", "bad", ".", "com">> -> "img.bad.com"
      [] t = <<"bad", ".", "com">> -> "bad.com"
      [] t = <<"bad", ".", "com", ":", "8080">> -> "bad.com:8080"
      [] OTHER -> ""

\* canonical_base_url(u): the lowercased netloc
canonical_base_url(u) == SiteName(Lower(Netloc(u)))

\* Perceptual hashes are bit strings; hash_distance is the number of bits
\* in which two of them differ.
hash_distance(h1, h2) == Cardinality({i \in 1..Len(h1) : h1[i] # h2[i]})

\* any_distance_below requiring every shared algorithm to be within threshold
all_distances_below(candidate, target, threshold) ==
    \A k \in DOMAIN candidate :
       k \in DOMAIN target => hash_distance(candidate[k], target[k]) <= threshold

\* any_distance_below(candidate, target, threshold)
any_distance_below(candidate, target, threshold) ==
    \E k \in DOMAIN candidate :
       /\ k \in DOMAIN target
       /\ hash_distance(candidate[k], target[k]) <= threshold

\* The scanners of the repository: dmca_monitor/scan_and_alert.py and the
\* first one, src/scan_and_alert.py (backend/scan_and_alert.py matches as
\* the first one does).
Variants == {"dmca_monitor", "legacy"}

\* What the secondary verification does when asked: the score passes or is
\* below min_score, skimage is missing (ssim is None), Image.open of the
\* reference raises, or the comparison raises.
SsimOutcomes == {"pass", "below", "missing", "unreadable", "raises"}

\* The SSIM step of the matching loop: TRUE when the loop goes on to
\* matched_key = kpath.  ssim_match returns False without skimage; an
\* exception is caught in the loop, which continues to the next reference
\* in dmca_monitor and falls through to the match in the other scanners.
SsimAccepts(variant, outcome) ==
    CASE outcome = "pass" -> TRUE
      [] outcome \in {"below", "missing"} -> FALSE
      [] outcome \in {"unreadable", "raises"} -> variant # "dmca_monitor"

\* The matching loop over known_hashes.items(), in the order of the
\* reference DB: the path of the first reference accepted, None when there
\* is none.  ssim is "off" when use_ssim is false.
RECURSIVE MatchedKey(_, _, _, _, _)
MatchedKey(variant, cand_hashes, known, threshold, ssim) ==
    IF known = <<>> THEN None
    ELSE IF /\ any_distance_below(cand_hashes, Head(known).hashes, threshold)
            /\ ssim # "off" => SsimAccepts(variant, ssim)
    THEN Str(Head(known).path)
    ELSE MatchedKey(variant, cand_hashes, Tail(known), threshold, ssim)

\* The dedup and exclusion filter of a term round (dmca_monitor); the first
\* scanner processes the candidates as the searches return them.
RECURSIVE Filtered(_, _, _)
Filtered(candidates, seen_in_round, excluded) ==
    IF candidates = <<>> THEN <<>>
    ELSE LET c == Head(candidates) IN
         IF c.img = "" \/ c.img \in seen_in_round
         THEN Filtered(Tail(candidates), seen_in_round, excluded)
         ELSE IF is_excluded(c.img, excluded) \/ is_excluded(c.host, excluded)
         THEN Filtered(Tail(candidates), seen_in_round \cup {c.img}, excluded)
         ELSE <<c>> \o Filtered(Tail(candidates), seen_in_round \cup {c.img}, excluded)

\* compute_hashes(img) of the images the model serves
ImageHashes(img) ==
    CASE img = "exact" -> [phash |-> <<0, 0, 0, 0>>, dhash |-> <<0, 0, 0, 0>>,
                           ahash |-> <<0, 0, 0, 0>>, whash |-> <<0, 0, 0, 0>>]
      [] img = "near" -> [phash |-> <<0, 0, 0, 1>>, dhash |-> <<1, 1, 0, 0>>,
                          ahash |-> <<0, 0, 1, 1>>, whash |-> <<0, 1, 1, 0>>]
      [] img = "other" -> [phash |-> <<1, 1, 0, 0>>, dhash |-> <<1, 1, 0, 0>>,
                           ahash |-> <<0, 1, 0, 1>>, whash |-> <<1, 0, 1, 0>>]
      [] OTHER -> [phash |-> <<0, 1, 1, 1>>, dhash |-> <<1, 1, 1, 1>>,
                   ahash |-> <<1, 1, 1, 1>>, whash |-> <<1, 1, 1, 1>>]
Images == {"exact", "near", "other", "second"}

\* The reference DBs: known_hashes, in file order.  The second reference
\* was hashed with phash only.
Ref1 ==
    [path |-> "ref/1.png",
     hashes |-> [phash |-> <<0, 0, 0, 0>>, dhash |-> <<0, 0, 0, 0>>,
                 ahash |-> <<0, 0, 0, 0>>, whash |-> <<0, 0, 0, 0>>]]
Ref2 == [path |-> "ref/2.png", hashes |-> [phash |-> <<0, 0, 1, 1>>]]
KnownDBs == {<<Ref1, Ref2>>, <<Ref2, Ref1>>}

\* What the searches of a term round can return: (img_url, host_page)
CandA == [img |-> "http://a.com/1.jpg", host |-> "http://a.com/page"]
CandB == [img |-> "http://cdn.net/2.jpg", host |-> "http://b.org/page"]
CandSub == [img |-> "http://img.bad.com/3.jpg", host |-> "http://a.com/page"]
CandPage == [img |-> "http://cdn.net/2.jpg", host |-> "http://BAD.com/gallery"]
CandPort == [img |-> "http://bad.com:8080/4.jpg", host |-> ""]
SearchResults == {<<CandA, CandB, CandA>>, <<CandPage, CandSub, CandPort>>}

\* The URLs whose download can fail
Flaky == {"http://cdn.net/2.jpg"}

\* The image a URL serves when its download succeeds.
ImageAt(u) ==
    CASE u = "http://a.com/1.jpg" -> "exact"
      [] u = "http://cdn.net/2.jpg" -> "near"
      [] u = "http://img.bad.com/3.jpg" -> "second"
      [] OTHER -> "other"

\* The audit row of a match
MatchRow(c, matched_key, now) ==
    [timestamp_utc |-> Ts(now), term |-> Str("cat"), image_url |-> Str(c.img),
     host_page |-> Str(c.host), matched_known_file |-> matched_key,
     saved_copy |-> Str("dl/copy.jpg")]

\* site_key = canonical_base_url(row["host_page"] or row["image_url"])
SiteKeyOf(c) == canonical_base_url(IF c.host # "" THEN c.host ELSE c.img)

\* The batch condition met by every record that is not muted
ShouldNotify_any_status(rec) == ~Truthy(Get(rec, "muted", Bool(FALSE)))

\* (rec.get("status") == "new") and (not rec.get("muted", False))
ShouldNotify(rec) ==
    /\ Get(rec, "status", None) = Str("new")
    /\ ~Truthy(Get(rec, "muted", Bool(FALSE)))

\* grouped[site_key].append(row), grouped being a dict in insertion order
GroupAdd(grouped, site, url) ==
    IF \E i \in 1..Len(grouped) : grouped[i].site = site
    THEN [i \in 1..Len(grouped) |->
             IF grouped[i].site = site
             THEN [grouped[i] EXCEPT !.urls = Append(@, url)]
             ELSE grouped[i]]
    ELSE Append(grouped, [site |-> site, urls |-> <<url>>])

\* base_url(u) of backend/scan_and_alert.py: scheme://netloc, lowercased
base_url(u) == <<"http", "://", canonical_base_url(u)>>

\* An entry of the record of what the runs did.
Event(e, c, site, info) ==
    [e |-> e, url |-> c.img, page |-> c.host, site |-> site, info |-> info,
     run |-> run.n]

\* seen_urls.add(img_url), left out
SeenAdd_skipped(seen, u) == seen

\* seen_urls holding the last URL only
SeenAdd_forgets(seen, u) == {u}

\* seen_urls.add(img_url)
SeenAdd(seen, u) == seen \cup {u}

----------------------------------------------------------------------------
(* SpecScan: runs of the scanners.  cfg is config.yaml and the reference  *)
(* DB, disk the seen cache and the alert state file, alerts the           *)
(* AlertState the run holds, run the position of main, events what the    *)
(* runs did so far.                                                       *)

MaxRuns == 2
MaxTerms == 2

ExcludedConfigs == {{}, {<<".", "BAD", ".", "com">>}}
AckedDoc ==
    SetMatch(DocOne, "a.com", "http://a.com/1.jpg",
             AckRecord(MatchAt(DocOne, "a.com", "http://a.com/1.jpg")))
MutedDoc ==
    SetMatch(DocOne, "a.com", "http://a.com/1.jpg",
             MuteRecord(MatchAt(DocOne, "a.com", "http://a.com/1.jpg")))
StoredAlerts == {EmptyState, DocOne, AckedDoc, MutedDoc}
StoredSeen == {{}, {"http://cdn.net/2.jpg"}}

Configs ==
    [variant : {"dmca_monitor"}, excluded : ExcludedConfigs, ssim : {"off"},
     threshold : {1}, known : {<<Ref1, Ref2>>}]
    \cup [variant : {"dmca_monitor"}, excluded : {{}}, ssim : {"off"},
          threshold : {1}, known : KnownDBs]
    \cup [variant : Variants, excluded : {{}}, ssim : SsimOutcomes,
          threshold : {1}, known : {<<Ref1, Ref2>>}]
    \cup [variant : Variants \ {"dmca_monitor"}, excluded : {{}}, ssim : {"off"},
          threshold : {1}, known : {<<Ref1, Ref2>>}]

InitScan ==
    /\ StoreIdle
    /\ FsIdle
    /\ probe = NoProbe
    /\ cfg \in Configs
    /\ disk \in [seen : StoredSeen, alerts : StoredAlerts]
    /\ (cfg.variant # "dmca_monitor" \/ cfg.ssim # "off") =>
          disk = [seen |-> {}, alerts |-> EmptyState]
    /\ run = NoRun
    /\ events = {}

ScanUnchanged == <<call, ops, hist, fsVars, probe, cfg>>

\* main up to the term loop: the seen cache and the alert state are loaded
ScanStart ==
    /\ run.stage = "idle"
    /\ run.n < MaxRuns
    /\ run' = [NoRun EXCEPT !.stage = "terms", !.n = run.n + 1,
                            !.seen_urls = disk.seen, !.seen_at_start = disk.seen]
    /\ alerts' = IF cfg.variant = "dmca_monitor" THEN disk.alerts ELSE alerts
    /\ clock' = clock + 1
    /\ UNCHANGED <<ScanUnchanged, disk, events>>

\* The searches of one term and, in dmca_monitor, the filter of the round
Search ==
    /\ run.stage = "terms"
    /\ run.rounds < MaxTerms
    /\ \E candidates \in SearchResults :
          LET filtered == IF cfg.variant = "dmca_monitor"
                          THEN Filtered(candidates, {}, load_excluded(cfg.excluded))
                          ELSE candidates
          IN run' = [run EXCEPT !.rounds = @ + 1, !.queue = filtered,
                                !.stage = IF filtered = <<>> THEN "terms" ELSE "round"]
    /\ UNCHANGED <<clock, ScanUnchanged, alerts, disk, events>>

AfterCandidate == IF Tail(run.queue) = <<>> THEN "terms" ELSE "round"

\* if img_url in seen_urls: continue; seen_urls.add(img_url)
Take ==
    /\ run.stage = "round"
    /\ LET c == Head(run.queue) IN
       IF c.img \in run.seen_urls
       THEN /\ run' = [run EXCEPT !.queue = Tail(@), !.stage = AfterCandidate]
            /\ events' = events
       ELSE /\ run' = [run EXCEPT !.queue = Tail(@), !.cur = c, !.stage = "download",
                                  !.seen_urls = SeenAdd(@, c.img)]
            /\ events' = events \cup {Event("seen_add", c, "", "")}
    /\ UNCHANGED <<clock, ScanUnchanged, alerts, disk>>

NextStage == IF run.queue = <<>> THEN "terms" ELSE "round"

\* download_image returned None
DownloadFails ==
    /\ run.stage = "download"
    /\ run.cur.img \in Flaky
    /\ run' = [run EXCEPT !.cur = NoCand, !.stage = NextStage]
    /\ events' = events \cup {Event("download", run.cur, "", "failed")}
    /\ UNCHANGED <<clock, ScanUnchanged, alerts, disk>>

\* The image was downloaded: hashes, match, copy, audit row, and what the
\* scanner does with a match.
Download ==
    /\ run.stage = "download"
    /\ LET c == run.cur
           matched_key == MatchedKey(cfg.variant, ImageHashes(ImageAt(c.img)),
                                     cfg.known, cfg.threshold, cfg.ssim)
           got_it == Event("download", c, "", "ok")
       IN
       IF matched_key = None
       THEN /\ run' = [run EXCEPT !.cur = NoCand, !.stage = NextStage]
            /\ events' = events \cup {got_it}
            /\ alerts' = alerts
       ELSE IF cfg.variant = "dmca_monitor"
       THEN LET site_key == SiteKeyOf(c)
                row == MatchRow(c, matched_key, clock)
                after == upsert_match(alerts, site_key, c.img, row, clock)
                rec == MatchAt(after, site_key, c.img)
                batched == ShouldNotify(rec)
            IN /\ alerts' = after
               /\ run' = [run EXCEPT !.cur = NoCand, !.stage = NextStage,
                                     !.grouped = IF batched
                                                 THEN GroupAdd(@, site_key, c.img)
                                                 ELSE @]
               /\ events' = events \cup
                     {got_it, Event("match", c, site_key, matched_key[2]),
                      Event("log", c, site_key, ""), Event("upsert", c, site_key, "")}
       ELSE IF cfg.variant = "backend"
       THEN /\ alerts' = alerts
            /\ run' = [run EXCEPT !.cur = NoCand, !.stage = NextStage,
                                  !.grouped = GroupAdd(@, base_url(IF c.host # "" THEN c.host ELSE c.img), c.img)]
            /\ events' = events \cup
                  {got_it, Event("match", c, "", matched_key[2]), Event("log", c, "", "")}
       ELSE /\ alerts' = alerts
            /\ \E delivery \in {"sent", "failed"} :
                  run' = [run EXCEPT !.cur = NoCand, !.stage = NextStage,
                                    !.delivery = delivery]
            /\ events' = events \cup
                  {got_it, Event("match", c, "", matched_key[2]), Event("log", c, "", ""),
                   Event("notify", c, "", "")}
    /\ UNCHANGED <<clock, ScanUnchanged, disk>>

\* After the term loop: save_json(seen cache), save_state(alerts)
Persist ==
    /\ run.stage = "terms"
    /\ disk' = [seen |-> run.seen_urls,
                alerts |-> IF cfg.variant = "dmca_monitor" THEN alerts ELSE disk.alerts]
    /\ events' = events \cup
          ({Event("save_seen", NoCand, "", "")} \cup
           IF cfg.variant = "dmca_monitor" THEN {Event("save_state", NoCand, "", "")} ELSE {})
    /\ run' = [run EXCEPT !.stage = "notify",
                          !.pending = IF cfg.variant = "legacy" THEN <<>> ELSE run.grouped]
    /\ UNCHANGED <<clock, ScanUnchanged, alerts>>

\* for b, items in grouped.items(): one message, delivered or not
Notify ==
    /\ run.stage = "notify"
    /\ run.pending # <<>>
    /\ events' = events \cup {Event("notify", NoCand, Head(run.pending).site, "")}
    /\ \E delivery \in {"sent", "failed"} :
          run' = [run EXCEPT !.pending = Tail(@), !.delivery = delivery]
    /\ UNCHANGED <<clock, ScanUnchanged, alerts, disk>>

\* main returns
Finish ==
    /\ run.stage = "notify"
    /\ run.pending = <<>>
    /\ run' = [NoRun EXCEPT !.n = run.n]
    /\ UNCHANGED <<clock, ScanUnchanged, alerts, disk, events>>

\* The process is killed during the term loop: nothing is saved
Abort ==
    /\ run.stage \in {"terms", "round"}
    /\ run' = [NoRun EXCEPT !.n = run.n]
    /\ UNCHANGED <<clock, ScanUnchanged, alerts, disk, events>>

NextScan ==
    \/ ScanStart
    \/ Search
    \/ Take
    \/ DownloadFails
    \/ Download
    \/ Persist
    \/ Notify
    \/ Finish
    \/ Abort

SpecScan == InitScan /\ [][NextScan]_vars

----------------------------------------------------------------------------
(* Claims about the scan runs (SpecScan).                                 *)

\* Whether the batch of the site holds the URL
InBatch(grouped, site, url) ==
    \E i \in 1..Len(grouped) :
       /\ grouped[i].site = site
       /\ \E j \in 1..Len(grouped[i].urls) : grouped[i].urls[j] = url

\* The step of a run of dmca_monitor that confirms a match of run.cur
MatchStep ==
    /\ cfg.variant = "dmca_monitor"
    /\ run.stage = "download"
    /\ Event("upsert", run.cur, SiteKeyOf(run.cur), "") \in events'

\* C14: a confirmed match is added to its site's batch if and only if the
\* record returned by upsert_match has status "new" and is not muted; a
\* match whose record had another status or was muted before the run is
\* never added.
C14_BatchIffNewUnmuted ==
    [][MatchStep =>
         LET c == run.cur
             site == SiteKeyOf(c)
             rec == MatchAt(alerts', site, c.img)
         IN /\ InBatch(run'.grouped, site, c.img) <=>
                  (rec["status"] = Str("new") /\ rec["muted"] = Bool(FALSE))
            /\ (/\ HasMatch(disk.alerts, site, c.img)
                /\ \/ MatchAt(disk.alerts, site, c.img)["status"] # Str("new")
                   \/ MatchAt(disk.alerts, site, c.img)["muted"] = Bool(TRUE))
               => ~InBatch(run'.grouped, site, c.img)]_vars

\* A run found again a match that was acknowledged or muted, and a new one:
\* only the new one is in a batch.
C14_Witness ==
    /\ cfg.variant = "dmca_monitor"
    /\ disk.alerts \in {AckedDoc, MutedDoc}
    /\ run.stage = "terms"
    /\ \E ev \in events :
          ev.e = "upsert" /\ ev.url = "http://a.com/1.jpg" /\ ev.run = run.n
    /\ ~InBatch(run.grouped, "a.com", "http://a.com/1.jpg")
    /\ InBatch(run.grouped, "b.org", "http://cdn.net/2.jpg")

\* C15: in every scan run the seen set and the alert state are persisted
\* before the first notification is sent, whatever the deliveries do.
C15_PersistBeforeNotify ==
    \A ev \in events :
       ev.e = "notify" =>
          /\ \E s \in events : s.e = "save_seen" /\ s.run = ev.run
          /\ cfg.variant = "dmca_monitor" =>
                \E s \in events : s.e = "save_state" /\ s.run = ev.run

\* The step that ends the download of run.cur, failed or not
DownloadStep == run.stage = "download" /\ run'.stage # "download"

\* Whether the run persisted its seen set
Persisted(n) == \E s \in events : s.e = "save_seen" /\ s.run = n

\* C16: a URL is in the seen set before its download is attempted, so it is
\* downloaded at most once in a run and, once a run that tried it has
\* persisted the seen set, never in a later run; a URL in the seen set at
\* the start of a run is not downloaded, matched or upserted in that run.
C16_SeenBeforeDownload ==
    [][DownloadStep =>
         LET u == run.cur.img IN
         /\ u \in run.seen_urls
         /\ u \notin run.seen_at_start
         /\ \A ev \in events :
               (ev.e = "download" /\ ev.url = u) =>
                  (ev.run < run.n /\ ~Persisted(ev.run))
         /\ \A ev \in events' \ events : ev.url = u]_vars

\* A download failed in a run that persisted, and a later run met the URL
\* again without downloading it.
C16_Witness ==
    /\ run.n = 2
    /\ run.stage = "terms"
    /\ run.rounds = 1
    /\ "http://cdn.net/2.jpg" \in run.seen_at_start
    /\ \E ev \in events :
          /\ ev.e = "download"
          /\ ev.url = "http://cdn.net/2.jpg"
          /\ ev.info = "failed"
          /\ ev.run = 1
    /\ Persisted(1)
    /\ \E ev \in events : ev.e = "download" /\ ev.run = 2 /\ ev.url = "http://a.com/1.jpg"
    /\ ~\E ev \in events : ev.run = 2 /\ ev.url = "http://cdn.net/2.jpg"

\* The host of the URL equals an excluded domain or is a sub-domain of one
UnderExcluded(u) ==
    \E d \in load_excluded(cfg.excluded) :
       Hostname(u) = d \/ EndsWith(Hostname(u), <<".">> \o d)

\* C17: no candidate whose image URL host or host-page host equals an
\* excluded domain or is a sub-domain of one is ever downloaded, added to
\* the seen set, logged or upserted.
C17_ExcludedNeverProcessed ==
    \A ev \in events :
       ev.e \in {"seen_add", "download", "log", "upsert"} =>
          ~(UnderExcluded(ev.url) \/ UnderExcluded(ev.page))

\* The reference entries that share with the hashes at least one algorithm
\* whose bit distance is within the threshold
WithinThreshold(h) ==
    {i \in 1..Len(cfg.known) :
        \E k \in DOMAIN h \cap DOMAIN cfg.known[i].hashes :
           Cardinality({b \in 1..Len(h[k]) : h[k][b] # cfg.known[i].hashes[k][b]})
              <= cfg.threshold}

\* The references reported as matched for the URL in the run
MatchesFor(url, n) == {m.info : m \in {ev \in events : ev.e = "match" /\ ev.url = url /\ ev.run = n}}

\* C18: with the secondary verification disabled, the matcher returns the
\* first reference entry, in the order of the reference DB, that shares an
\* algorithm within the threshold with the candidate, and none only if no
\* entry does.
C18_FirstWithinThreshold ==
    cfg.ssim = "off" =>
       \A ev \in events :
          (ev.e = "download" /\ ev.info = "ok") =>
             LET hits == WithinThreshold(ImageHashes(ImageAt(ev.url))) IN
             IF hits = {} THEN MatchesFor(ev.url, ev.run) = {}
             ELSE MatchesFor(ev.url, ev.run) =
                     {cfg.known[CHOOSE i \in hits : \A j \in hits : i <= j].path}

\* An image within the threshold of both references was matched to the
\* first of the DB, and an image within the threshold of none to none.
C18_Witness ==
    /\ cfg.ssim = "off"
    /\ cfg.known = <<Ref2, Ref1>>
    /\ \E ev \in events :
          /\ ev.e = "download" /\ ev.info = "ok"
          /\ WithinThreshold(ImageHashes(ImageAt(ev.url))) = {1, 2}
          /\ MatchesFor(ev.url, ev.run) = {"ref/2.png"}
    /\ \E ev \in events :
          /\ ev.e = "download" /\ ev.info = "ok"
          /\ WithinThreshold(ImageHashes(ImageAt(ev.url))) = {}
          /\ MatchesFor(ev.url, ev.run) = {}

\* C19: with the secondary verification enabled and unavailable (the SSIM
\* library missing, the reference image unreadable, or the comparison
\* raising), no reference is ever reported as matched.
C19_FailClosed ==
    cfg.ssim \in {"missing", "unreadable", "raises"} =>
       \A ev \in events : ev.e # "match"

----------------------------------------------------------------------------
(* SpecRecheck: run_once applied, as a whole, to the state get_state       *)
(* returns, between review actions.  alerts is that state, call what the   *)
(* last operation was given and returned.                                   *)

RecheckFetches ==
    {[kind |-> "response", code |-> 200, ctype |-> "image/jpeg", body |-> ""],
     [kind |-> "response", code |-> 404, ctype |-> "text/html", body |-> "Page Not Found"],
     [kind |-> "response", code |-> 410, ctype |-> "text/html", body |-> ""],
     [kind |-> "response", code |-> 451, ctype |-> "application/json", body |-> ""],
     [kind |-> "RequestException"]}

\* What a worker's future delivers: the fetch it made, or "raised"
Worked(now) ==
    {[raised |-> FALSE, resp |-> f, res |-> check_one(f, now)] : f \in RecheckFetches}
    \cup {[raised |-> TRUE, resp |-> [kind |-> "none"], res |-> WorkerError(now)]}

InitRecheck ==
    /\ ScanIdle
    /\ FsIdle
    /\ clock = 1
    /\ alerts \in Docs
    /\ call = [op |-> "init"]
    /\ ops = 0
    /\ hist = [k \in StoreKeys |-> NoCalls]

\* run_once(get_state, set_state) on the state get_state returned
RunOnce ==
    /\ ops < MaxOps
    /\ LET targets == Targets(alerts) IN
       IF targets = <<>>
       THEN /\ alerts' = alerts
            /\ call' = [op |-> "run_once", ret |-> 0, saved |-> FALSE,
                        targets |-> targets, done |-> <<>>]
       ELSE \E done \in [{targets[i] : i \in 1..Len(targets)} -> Worked(clock)] :
               LET results == [k \in DOMAIN done |-> done[k].res] IN
               /\ alerts' = MergeAll(alerts, targets, results)
               /\ call' = [op |-> "run_once", ret |-> Cardinality(DOMAIN results),
                           saved |-> TRUE, targets |-> targets, done |-> done]
    /\ ops' = ops + 1
    /\ UNCHANGED <<clock, hist, fsVars, probe, scanVars>>

NextRecheck ==
    \/ Tick
    \/ \E k \in StoreKeys : Ack(k)
    \/ \E k \in StoreKeys : Close(k)
    \/ RunOnce

SpecRecheck == InitRecheck /\ [][NextRecheck]_vars

\* The step of a run_once that had targets
RunOnceStep == ops' = ops + 1 /\ call'.op = "run_once" /\ call'.saved

\* C21: for a record whose status is neither "ack" nor "closed", a recheck
\* whose response is HTTP 404, 410 or 451 leaves the record with status
\* "gone", removed_at_utc the check time, http_status the response code and
\* fail_reason null.
C21_GoneOnRemovalCodes ==
    [][RunOnceStep =>
         \A k \in DOMAIN call'.done :
            LET d == call'.done[k]
                before == MatchAt(alerts, k[1], k[2])
                after == MatchAt(alerts', k[1], k[2])
            IN (/\ ~d.raised
                /\ d.resp.kind = "response"
                /\ d.resp.code \in {404, 410, 451}
                /\ Get(before, "status", None) \notin {Str("ack"), Str("closed")})
               => /\ after["status"] = Str("gone")
                  /\ after["removed_at_utc"] = Ts(clock)
                  /\ after["http_status"] = Num(d.resp.code)
                  /\ after["fail_reason"] = None]_vars

\* A record last seen at 1 is gone, removed at 2, after a recheck at 2 that
\* answered 410.
C21_Witness ==
    /\ call.op = "run_once"
    /\ call.saved
    /\ \E k \in DOMAIN call.done :
          /\ ~call.done[k].raised
          /\ call.done[k].resp.kind = "response"
          /\ call.done[k].resp.code = 410
          /\ MatchAt(alerts, k[1], k[2])["status"] = Str("gone")
          /\ MatchAt(alerts, k[1], k[2])["removed_at_utc"] = Ts(clock)
          /\ "last_seen_utc" \in DOMAIN MatchAt(alerts, k[1], k[2])
          /\ MatchAt(alerts, k[1], k[2])["last_seen_utc"] = Ts(1)
          /\ clock = 2

LivenessFields ==
    {"http_status", "fail_reason", "last_checked_utc", "last_seen_utc",
     "removed_at_utc", "status"}

C30_TimesOnEveryRecord ==
    [][RunOnceStep =>
         \A k \in DOMAIN call'.done :
            LET res == call'.done[k].res
                before == MatchAt(alerts, k[1], k[2])
                after == MatchAt(alerts', k[1], k[2])
                manual == Get(before, "status", None) \in {Str("ack"), Str("closed")}
            IN /\ res.status = Str("up") =>
                    /\ Get(after, "last_seen_utc", None) = Ts(clock)
                    /\ "removed_at_utc" \notin DOMAIN after
               /\ res.status = Str("gone") =>
                    /\ Get(after, "removed_at_utc", None) = Ts(clock)
                    /\ after["status"] = IF manual THEN before["status"] ELSE Str("gone")]_vars

\* An acknowledged record lost its removal time to an up result, and a
\* closed one got a removal time from a gone result.
C30_Witness ==
    /\ call.op = "run_once"
    /\ call.saved
    /\ clock = 2
    /\ \E k \in DOMAIN call.done :
          LET m == MatchAt(alerts, k[1], k[2]) IN
          /\ call.done[k].res.status = Str("up")
          /\ m["status"] = Str("ack")
          /\ m["last_seen_utc"] = Ts(2)
          /\ "removed_at_utc" \notin DOMAIN m
          /\ Get(m, "notes", <<>>) # <<>>
    /\ \E k \in DOMAIN call.done :
          LET m == MatchAt(alerts, k[1], k[2]) IN
          /\ call.done[k].res.status = Str("gone")
          /\ m["status"] = Str("closed")
          /\ m["removed_at_utc"] = Ts(2)

Min(a, b) == IF a <= b THEN a ELSE b

\* C29: run_once on a state with N match records checks min(N, BATCH_LIMIT)
\* of them and returns that number (0, without saving, when N = 0); every
\* selected record receives exactly one result, and a worker that raises
\* yields an error result with a worker_error fail_reason for its own URL
\* only.
C29_BatchAndIsolation ==
    [][(ops' = ops + 1 /\ call'.op = "run_once") =>
         LET N == Cardinality(AllKeys(alerts))
             targets == call'.targets
         IN /\ call'.ret = Min(N, BATCH_LIMIT)
            /\ Len(targets) = call'.ret
            /\ \A i, j \in 1..Len(targets) : targets[i] = targets[j] => i = j
            /\ \A i \in 1..Len(targets) : targets[i] \in AllKeys(alerts)
            /\ N = 0 => (~call'.saved /\ alerts' = alerts)
            /\ N > 0 => call'.saved
            /\ DOMAIN call'.done = {targets[i] : i \in 1..Len(targets)}
            /\ \A limit \in 0..3 :
                  Len(FirstTargets(alerts, limit)) = Min(N, limit)
            /\ \A k \in DOMAIN call'.done :
                  LET d == call'.done[k]
                      after == MatchAt(alerts', k[1], k[2])
                  IN /\ after["last_checked_utc"] = Ts(clock)
                     /\ d.raised =>
                          /\ after["status"] = Str("error")
                          /\ after["fail_reason"] = Str("worker_error:RuntimeError")
                          /\ after["http_status"] = None
                     /\ ~d.raised =>
                          /\ after["http_status"] = fetch_status(d.resp).code
                          /\ after["fail_reason"] = fetch_status(d.resp).fail]_vars

\* A run_once over two records returned 2: the worker of one raised, and
\* the other was found gone.
C29_Witness ==
    /\ call.op = "run_once"
    /\ call.ret = 2
    /\ \E k, j \in DOMAIN call.done :
          /\ call.done[k].raised
          /\ MatchAt(alerts, k[1], k[2])["fail_reason"] = Str("worker_error:RuntimeError")
          /\ ~call.done[j].raised
          /\ call.done[j].resp.kind = "response"
          /\ MatchAt(alerts, j[1], j[2])["http_status"] = Num(404)
          /\ MatchAt(alerts, j[1], j[2])["fail_reason"] = None

----------------------------------------------------------------------------
(* utils.discord_notify.  A str is a sequence of runs of characters of one *)
(* class: " " (whitespace), "x" (any other character) and "S", characters  *)
(* o+1..o+n of the scheme "http://".                                       *)

MAX_LEN == 2000

X(n) == [c |-> "x", o |-> 0, n |-> n]
Sp(n) == [c |-> " ", o |-> 0, n |-> n]
Scheme == [c |-> "S", o |-> 0, n |-> 7]

\* len(text)
RECURSIVE StrLen(_)
StrLen(t) == IF t = <<>> THEN 0 ELSE Head(t).n + StrLen(Tail(t))

\* a + b
Concat(a, b) ==
    IF a = <<>> THEN b
    ELSE IF b = <<>> THEN a
    ELSE LET l == a[Len(a)]
             r == Head(b)
         IN IF l.c = r.c /\ (l.c = "S" => l.o + l.n = r.o)
            THEN SubSeq(a, 1, Len(a) - 1) \o <<[l EXCEPT !.n = l.n + r.n]>> \o Tail(b)
            ELSE a \o b

\* text[:k]
RECURSIVE Prefix(_, _)
Prefix(t, k) ==
    IF k <= 0 \/ t = <<>> THEN <<>>
    ELSE IF Head(t).n <= k THEN <<Head(t)>> \o Prefix(Tail(t), k - Head(t).n)
    ELSE <<[Head(t) EXCEPT !.n = k]>>

\* text[k:]
RECURSIVE Suffix(_, _)
Suffix(t, k) ==
    IF t = <<>> THEN <<>>
    ELSE IF k <= 0 THEN t
    ELSE IF Head(t).n <= k THEN Suffix(Tail(t), k - Head(t).n)
    ELSE <<[Head(t) EXCEPT !.n = @ - k, !.o = IF Head(t).c = "S" THEN @ + k ELSE 0]>>
         \o Tail(t)

\* [text[i:i+MAX_LEN] for i in range(0, len(text), MAX_LEN)] or ["(empty)"]
Chunks(text) ==
    LET n == StrLen(text)
        count == (n + MAX_LEN - 1) \div MAX_LEN
    IN IF n = 0 THEN <<<<X(7)>>>>
       ELSE [i \in 1..count |-> Prefix(Suffix(text, (i - 1) * MAX_LEN), MAX_LEN)]

\* Whether _URL_RE, https?://\S+, matches at the head of t: the whole
\* scheme and one more character that is not whitespace
UrlAt(t) ==
    /\ Len(t) >= 2
    /\ t[1].c = "S" /\ t[1].o = 0 /\ t[1].n = 7
    /\ t[2].c # " "

\* _suppress_links(text): every match of _URL_RE, which runs to the next
\* whitespace, is put between "<" and ">"
RECURSIVE Wrap(_, _)
Wrap(t, inside) ==
    IF t = <<>> THEN (IF inside THEN <<X(1)>> ELSE <<>>)
    ELSE IF inside
    THEN (IF Head(t).c = " " THEN <<X(1), Head(t)>> \o Wrap(Tail(t), FALSE)
          ELSE <<Head(t)>> \o Wrap(Tail(t), TRUE))
    ELSE IF UrlAt(t) THEN <<X(1), Head(t)>> \o Wrap(Tail(t), TRUE)
    ELSE <<Head(t)>> \o Wrap(Tail(t), FALSE)

_suppress_links(text) == Wrap(text, FALSE)

\* The messages handed to discord_notify: none, a short one with a URL, one
\* of MAX_LEN characters that ends with a URL, one of MAX_LEN characters
\* without a URL, and longer ones whose cuts fall inside a URL and inside
\* its scheme.
Texts ==
    {<<>>,
     <<X(5), Sp(1), Scheme, X(10)>>,
     <<X(1970), Sp(1), Scheme, X(22)>>,
     <<X(1200), Sp(800)>>,
     <<X(1990), Sp(1), Scheme, X(20), Sp(1), X(1990)>>,
     <<X(1996), Scheme, X(10), Sp(2), Scheme, X(1990)>>}

\* What the webhook does with a post: 204, 400, 429 with the retry delay
\* it names in milliseconds, or no answer (requests.RequestException)
Answers ==
    {[kind |-> "ok", status |-> 204, retry_after |-> 0],
     [kind |-> "rejected", status |-> 400, retry_after |-> 0],
     [kind |-> "rate_limited", status |-> 429, retry_after |-> 300],
     [kind |-> "rate_limited", status |-> 429, retry_after |-> 9000],
     [kind |-> "exception", status |-> 0, retry_after |-> 0]}

\* discord_notify resending every chunk without the flag
NeedsFallback_always(answer) == TRUE

\* discord_notify (dmca_monitor/utils.py): the first _discord_post raised,
\* which raise_for_status does for every 4xx and 5xx, requests.post for no
\* answer
NeedsFallback(answer) == answer.kind # "ok"

----------------------------------------------------------------------------
(* SpecNotify: one call of discord_notify by a scan run.  cfg is the       *)
(* scanner, the webhook setting and the message, run the position in the   *)
(* loops of discord_notify and _discord_post, events the requests posted.  *)

InitNotify ==
    /\ StoreIdle
    /\ FsIdle
    /\ probe = NoProbe
    /\ disk = NoDisk
    /\ cfg \in [variant : {"dmca_monitor", "legacy"}, webhook : BOOLEAN, text : Texts]
    /\ run = [stage |-> "call", chunks |-> <<>>, i |-> 0, try |-> "", attempt |-> 0,
              raised |-> FALSE, escaped |-> FALSE]
    /\ events = {}

NotifyUnchanged == <<clock, storeVars, fsVars, probe, disk, cfg>>

\* discord_notify up to the loop over the chunks
NotifyCall ==
    /\ run.stage = "call"
    /\ run' = IF ~cfg.webhook THEN [run EXCEPT !.stage = "returned"]
              ELSE [run EXCEPT !.stage = "post", !.chunks = Chunks(cfg.text), !.i = 1,
                               !.try = IF cfg.variant = "dmca_monitor" THEN "flagged"
                                       ELSE "plain",
                               !.attempt = 1]
    /\ UNCHANGED <<NotifyUnchanged, events>>

\* A request posted for the chunk, and what came of it
Posted(content, flags, answer, slept) ==
    [chunk |-> run.i, try |-> run.try, attempt |-> run.attempt, content |-> content,
     flags |-> flags, answer |-> answer, slept |-> slept]

AfterChunk ==
    IF run.i < Len(run.chunks)
    THEN [run EXCEPT !.i = @ + 1, !.attempt = 1,
                     !.try = IF cfg.variant = "dmca_monitor" THEN "flagged" ELSE "plain"]
    ELSE [run EXCEPT !.stage = "returned"]

\* dmca_monitor/utils.py: a _discord_post of discord_notify with
\* suppress_embeds, first with flags = 4, then with the links wrapped
PostFlagged ==
    /\ run.stage = "post"
    /\ cfg.variant = "dmca_monitor"
    /\ \E answer \in Answers :
          LET chunk == run.chunks[run.i] IN
          IF run.try = "flagged"
          THEN /\ events' = events \cup {Posted(chunk, 4, answer, 0)}
               /\ run' = IF NeedsFallback(answer) THEN [run EXCEPT !.try = "wrapped"]
                         ELSE AfterChunk
          ELSE /\ events' = events \cup {Posted(_suppress_links(chunk), 0, answer, 0)}
               /\ run' = AfterChunk
    /\ UNCHANGED NotifyUnchanged

\* src/utils.py: an attempt of _discord_post.  The module does not import
\* time: time.sleep raises NameError, which no handler catches.
PostRetrying ==
    /\ run.stage = "post"
    /\ cfg.variant = "legacy"
    /\ \E answer \in Answers :
          /\ events' = events \cup {Posted(run.chunks[run.i], 0, answer, 0)}
          /\ run' = IF answer.kind \in {"ok", "rejected"} THEN AfterChunk
                    ELSE [run EXCEPT !.stage = "returned", !.raised = TRUE]
    /\ UNCHANGED NotifyUnchanged

\* Back in the scan run: notify_discord_msg catches Exception, the first
\* scanner calls discord_notify outside of any try
Return ==
    /\ run.stage = "returned"
    /\ run' = [run EXCEPT !.stage = "done",
                          !.escaped = run.raised /\ cfg.variant # "dmca_monitor"]
    /\ UNCHANGED <<NotifyUnchanged, events>>

NextNotify ==
    \/ NotifyCall
    \/ PostFlagged
    \/ PostRetrying
    \/ Return

SpecNotify == InitNotify /\ [][NextNotify]_vars

\* The chunks of the message, one after the other
RECURSIVE Joined(_)
Joined(chunks) == IF chunks = <<>> THEN <<>> ELSE Concat(Head(chunks), Joined(Tail(chunks)))

\* C24: discord_notify splits the message into chunks of at most 2000
\* characters whose concatenation is the message, an empty message gives
\* one placeholder chunk, and the content of every request posted, the
\* resend with wrapped URLs included, is at most 2000 characters long.
C24_ChunksWithinLimit ==
    /\ run.stage # "call" /\ cfg.webhook =>
          /\ \A i \in 1..Len(run.chunks) :
                StrLen(run.chunks[i]) <= 2000 /\ StrLen(run.chunks[i]) > 0
          /\ cfg.text # <<>> => Joined(run.chunks) = cfg.text
          /\ cfg.text = <<>> => run.chunks = <<<<X(7)>>>>
    /\ \A post \in events : StrLen(post.content) <= 2000

\* C25: when the webhook answers a post with 429, the dispatcher sleeps
\* for the delay the answer names, at most 5 seconds, and posts the same
\* chunk again, up to 3 attempts per chunk, and nothing is raised from the
\* retry path.
C25_RateLimitRetry ==
    /\ ~run.raised
    /\ run.stage = "done" =>
          \A post \in events :
             (post.answer.kind = "rate_limited" /\ post.attempt < 3) =>
                /\ post.slept = Min(post.answer.retry_after, 5000)
                /\ \E again \in events :
                      /\ again.chunk = post.chunk
                      /\ again.content = post.content
                      /\ again.flags = post.flags
                      /\ again.attempt = post.attempt + 1

\* The posts made for the chunk in the try
PostsOf(i, try) == {post \in events : post.chunk = i /\ post.try = try}

\* C26: for each chunk discord_notify posts at most twice, first with the
\* embed-suppression flag and, only if that post fails, once more with the
\* URLs wrapped and without the flag; if both fail the chunk is dropped,
\* every remaining chunk is still attempted, and no exception reaches the
\* scan run.
C26_FallbackOnce ==
    cfg.variant = "dmca_monitor" =>
       /\ \A post \in events :
             /\ post.try \in {"flagged", "wrapped"}
             /\ post.try = "flagged" =>
                   (post.flags = 4 /\ post.content = run.chunks[post.chunk])
             /\ post.try = "wrapped" =>
                   /\ post.flags = 0
                   /\ post.content = _suppress_links(run.chunks[post.chunk])
                   /\ \E first \in PostsOf(post.chunk, "flagged") : first.answer.kind # "ok"
                   /\ ~\E first \in PostsOf(post.chunk, "flagged") : first.answer.kind = "ok"
       /\ \A i \in 1..Len(run.chunks) :
             /\ Cardinality(PostsOf(i, "flagged")) <= 1
             /\ Cardinality(PostsOf(i, "wrapped")) <= 1
       /\ (run.stage = "done" /\ cfg.webhook) =>
             \A i \in 1..Len(run.chunks) :
                /\ PostsOf(i, "flagged") # {}
                /\ (\E first \in PostsOf(i, "flagged") : first.answer.kind # "ok")
                      => PostsOf(i, "wrapped") # {}
       /\ ~run.escaped

\* A message of three chunks was dispatched: the first went through at
\* once, the second on the resend, the third was dropped after two
\* failures, and discord_notify returned.
C26_Witness ==
    /\ cfg.variant = "dmca_monitor"
    /\ run.stage = "done"
    /\ Len(run.chunks) = 3
    /\ \E post \in PostsOf(1, "flagged") : post.answer.kind = "ok"
    /\ PostsOf(1, "wrapped") = {}
    /\ \E post \in PostsOf(2, "flagged") : post.answer.kind = "rejected"
    /\ \E post \in PostsOf(2, "wrapped") : post.answer.kind = "ok"
    /\ \E post \in PostsOf(3, "flagged") : post.answer.kind = "rate_limited"
    /\ \E post \in PostsOf(3, "wrapped") : post.answer.kind = "exception"

----------------------------------------------------------------------------
(* SpecFormat: the message scan_and_alert.main builds for the batch of a   *)
(* site.  Only the lengths of the strings matter here: cfg is the batch,   *)
(* run the message.                                                        *)

MaxBatch == 10

\* format_line(s, maxlen = 160): the length of
\* s if len(s) <= maxlen else s[: maxlen - 1] + "..." (one character)
format_line(len) == IF len <= 160 THEN len ELSE (160 - 1) + 1

\* it["host_page"] or "(no host page)"
HostPg(len) == IF len = 0 THEN 14 ELSE len

\* The length of f"- {format_line(ex_url)}  (via {format_line(host_pg)})"
ExampleLine(it) == 2 + format_line(it.url) + 7 + format_line(HostPg(it.host)) + 1

\* The message for items: total, the lines for items[:8], and extra_line
FormatMessage(items) ==
    LET total == Len(items)
        shown == SubSeq(items, 1, IF total <= 8 THEN total ELSE 8)
        lines == [j \in 1..Len(shown) |-> ExampleLine(shown[j])]
        extra == total - Len(lines)
    IN [total |-> total, lines |-> lines,
        more |-> IF extra > 0 THEN <<extra>> ELSE <<>>]

\* The lengths of the image URLs and host pages of a batch; a host page can
\* be missing
UrlLengths == {30, 160, 400}
HostLengths == {0, 25, 161}

InitFormat ==
    /\ StoreIdle
    /\ FsIdle
    /\ probe = NoProbe
    /\ disk = NoDisk
    /\ events = {}
    /\ \E n \in 1..MaxBatch, u \in UrlLengths, h \in HostLengths, v \in UrlLengths :
          cfg = [items |-> [j \in 1..n |-> [url |-> IF j = 1 THEN u ELSE v, host |-> h]]]
    /\ run = [stage |-> "format"]

\* One turn of the loop over grouped.items()
Format ==
    /\ run.stage = "format"
    /\ run' = [stage |-> "done", msg |-> FormatMessage(cfg.items)]
    /\ UNCHANGED <<clock, storeVars, fsVars, probe, disk, cfg, events>>

NextFormat == Format

SpecFormat == InitFormat /\ [][NextFormat]_vars

\* C27: for a batch of n matches the message reports total n, has exactly
\* min(n, 8) example lines, ends with "and N more", N = n - 8, exactly when
\* n > 8, and every example line is at most 160 characters long.
C27_MessageShape ==
    run.stage = "done" =>
       LET n == Len(cfg.items) IN
       /\ run.msg.total = n
       /\ Len(run.msg.lines) = Min(n, 8)
       /\ (run.msg.more # <<>>) = (n > 8)
       /\ n > 8 => run.msg.more = <<n - 8>>
       /\ \A j \in 1..Len(run.msg.lines) : run.msg.lines[j] <= 160

----------------------------------------------------------------------------
(* SpecSched: the executions of run_once in the web application.  The      *)
(* job install_scheduler adds runs in the scheduler's thread "recheck":    *)
(* add_job is called without max_instances, so the scheduler runs one      *)
(* instance of the job at a time and skips a tick that is due while one    *)
(* is running.  The "recheck now" trigger of the dashboard runs run_once   *)
(* in the thread "web" of its request.  alerts is the document get_state   *)
(* reads and set_state writes, mem[p] the state run_once holds in p.       *)

Rechecking == {"checking", "ready"}

InitSched ==
    /\ ScanIdle
    /\ FsIdle
    /\ clock = 1
    /\ alerts \in Docs
    /\ call = [op |-> "init"]
    /\ ops = 0
    /\ hist = [k \in StoreKeys |-> NoCalls]

SchedUnchanged ==
    <<hist, names, data, lock, fh, off, got, prior, initial, saves, probe, scanVars>>

\* run_once up to the workers: state = get_state(), the targets, and the
\* return of 0 when there are none
RunGet(p, op) ==
    /\ mem' = [mem EXCEPT ![p] = alerts]
    /\ pc' = [pc EXCEPT ![p] = IF Targets(alerts) = <<>> THEN "idle" ELSE "checking"]
    /\ call' = [op |-> op]
    /\ ops' = ops + 1
    /\ UNCHANGED <<clock, alerts, SchedUnchanged>>

\* A tick of the interval job is due and no instance of the job is running
JobStart ==
    /\ ops < MaxOps
    /\ pc["recheck"] = "idle"
    /\ RunGet("recheck", "job")

\* A tick is due while the instance of the previous one is running: the
\* scheduler skips it
TickSkipped ==
    /\ ops < MaxOps
    /\ pc["recheck"] # "idle"
    /\ call' = [op |-> "skipped"]
    /\ ops' = ops + 1
    /\ UNCHANGED <<clock, alerts, pc, mem, SchedUnchanged>>

\* The dashboard's "recheck now": run_once in the request's thread
RecheckNow ==
    /\ ops < MaxOps
    /\ pc["web"] = "idle"
    /\ RunGet("web", "recheck_now")

\* run_once: the workers' results are merged into the state
RunMerge(p) ==
    /\ pc[p] = "checking"
    /\ LET targets == Targets(mem[p]) IN
       \E results \in [{targets[i] : i \in 1..Len(targets)}
                         -> {check_one(f, clock) : f \in Fetches}] :
          mem' = [mem EXCEPT ![p] = MergeAll(@, targets, results)]
    /\ pc' = [pc EXCEPT ![p] = "ready"]
    /\ UNCHANGED <<clock, alerts, call, ops, SchedUnchanged>>

\* run_once: set_state(state)
RunSet(p) ==
    /\ pc[p] = "ready"
    /\ alerts' = mem[p]
    /\ pc' = [pc EXCEPT ![p] = "idle"]
    /\ UNCHANGED <<clock, mem, call, ops, SchedUnchanged>>

NextSched ==
    \/ Tick
    \/ JobStart
    \/ TickSkipped
    \/ RecheckNow
    \/ \E p \in {"recheck", "web"} : RunMerge(p)
    \/ \E p \in {"recheck", "web"} : RunSet(p)

SpecSched == InitSched /\ [][NextSched]_vars

\* C23: recheck batches never overlap: at no time are two executions of
\* run_once, scheduled or on demand, between their get_state and their
\* set_state.
C23_NoOverlap == ~(pc["recheck"] \in Rechecking /\ pc["web"] \in Rechecking)

----------------------------------------------------------------------------
(* SpecMatch: the matching loop of the scanners applied to one downloaded  *)
(* image.  cfg is the scanner, the image, the reference DB in file order,  *)
(* the threshold, use_ssim and what the secondary verification does for    *)
(* each reference; call is the matched_key the loop leaves.                *)

MaxThreshold == 2

\* The loop ended by a reference that is within the threshold and fails the
\* secondary verification
RECURSIVE MatchLoop_stops_at_failed(_, _, _, _, _, _)
MatchLoop_stops_at_failed(variant, cand_hashes, known, threshold, use_ssim, verdict) ==
    IF known = <<>> THEN None
    ELSE IF any_distance_below(cand_hashes, Head(known).hashes, threshold)
    THEN IF use_ssim => SsimAccepts(variant, verdict[Head(known).path])
         THEN Str(Head(known).path)
         ELSE None
    ELSE MatchLoop_stops_at_failed(variant, cand_hashes, Tail(known), threshold,
                                   use_ssim, verdict)

\* for kpath, khashes in known_hashes.items(): the hash test, the SSIM test
\* of that reference when use_ssim is set (continue when it fails), then
\* matched_key = kpath and break
RECURSIVE MatchLoop(_, _, _, _, _, _)
MatchLoop(variant, cand_hashes, known, threshold, use_ssim, verdict) ==
    IF known = <<>> THEN None
    ELSE IF /\ any_distance_below(cand_hashes, Head(known).hashes, threshold)
            /\ use_ssim => SsimAccepts(variant, verdict[Head(known).path])
    THEN Str(Head(known).path)
    ELSE MatchLoop(variant, cand_hashes, Tail(known), threshold, use_ssim, verdict)

RefPaths == {Ref1.path, Ref2.path}

InitMatch ==
    /\ StoreIdle
    /\ FsIdle
    /\ probe = NoProbe
    /\ disk = NoDisk
    /\ events = {}
    /\ run = [stage |-> "match"]
    /\ cfg \in [variant : Variants, img : Images, known : KnownDBs,
                threshold : 0..MaxThreshold, use_ssim : BOOLEAN,
                verdict : [RefPaths -> SsimOutcomes]]

\* cand_hashes = compute_hashes(img) and the loop over the reference DB
Match ==
    /\ run.stage = "match"
    /\ run' = [stage |-> "done"]
    /\ call' = [op |-> "match",
                ret |-> MatchLoop(cfg.variant, ImageHashes(cfg.img), cfg.known,
                                  cfg.threshold, cfg.use_ssim, cfg.verdict)]
    /\ UNCHANGED <<clock, alerts, ops, hist, fsVars, probe, disk, cfg, events>>

NextMatch == Match

SpecMatch == InitMatch /\ [][NextMatch]_vars

\* The secondary verification is enabled and gives a score for every
\* reference
SsimAvailable ==
    /\ cfg.use_ssim
    /\ \A p \in RefPaths : cfg.verdict[p] \in {"pass", "below"}

\* The reference entries that pass the hash test and the secondary test
PassBoth ==
    {i \in WithinThreshold(ImageHashes(cfg.img)) : cfg.verdict[cfg.known[i].path] = "pass"}

\* C31: with the secondary verification enabled and available, the matcher
\* reports the first reference entry, in the order of the reference DB, that
\* passes both the hash test and the structural-similarity test; an entry
\* that fails the secondary test is skipped and the later ones are still
\* examined; the result is none if and only if no entry passes both.
C31_FirstPassingBoth ==
    (call.op = "match" /\ SsimAvailable) =>
       IF PassBoth = {} THEN call.ret = None
       ELSE call.ret = Str(cfg.known[CHOOSE i \in PassBoth : \A j \in PassBoth : i <= j].path)

\* Both references are within the threshold of the image, the first fails
\* the secondary test and the second passes it: the second is reported.
C31_Witness ==
    /\ call.op = "match"
    /\ SsimAvailable
    /\ WithinThreshold(ImageHashes(cfg.img)) = {1, 2}
    /\ cfg.verdict[cfg.known[1].path] = "below"
    /\ cfg.verdict[cfg.known[2].path] = "pass"
    /\ call.ret = Str(cfg.known[2].path)

----------------------------------------------------------------------------
(* SpecSeen: the seen cache of a scan run, at the level of its file.       *)
(* disk.seen is the file at seen_cache_path, run the position of main and  *)
(* its seen_urls.  The process can be killed at any step; what json.dump   *)
(* wrote reaches the file FlushLen tokens at a time.                       *)

\* The image URLs of the model in the order of sorted(): str comparison
UrlOrder ==
    <<"http://a.com/1.jpg", "http://bad.com:8080/4.jpg", "http://cdn.net/2.jpg",
      "http://img.bad.com/3.jpg">>

SeenUrls == {UrlOrder[i] : i \in 1..Len(UrlOrder)}

\* sorted(list(seen_urls))
SortedUrls(seen_urls) == SelectSeq(UrlOrder, LAMBDA u : u \in seen_urls)

\* json.dump of a list of str with indent=2
RECURSIVE DumpUrls(_)
DumpUrls(urls) ==
    IF urls = <<>> THEN <<>>
    ELSE <<Ws, Lit(Str(Head(urls)))>>
         \o (IF Len(urls) > 1 THEN <<Comma>> ELSE <<>>)
         \o DumpUrls(Tail(urls))

\* json.dump({"urls": urls}, f, indent=2, ensure_ascii=False)
DumpSeen(urls) ==
    <<LBrace, Ws, Lit(Str("urls")), Colon>>
    \o (IF urls = <<>> THEN <<LBrack, RBrack>>
        ELSE <<LBrack>> \o DumpUrls(urls) \o <<Ws, RBrack>>)
    \o <<Ws, RBrace>>

\* load_json(path, default = {"urls": []}) and seen.get("urls", []): the
\* list read, or the JSONDecodeError json.load raises
load_json(file) ==
    IF ~file.exists THEN Returned(<<>>, "list")
    ELSE LET r == Loads(file.text) IN
         IF ~r.ok THEN Raised("JSONDecodeError")
         ELSE IF r.ty = "dict" /\ "urls" \in DOMAIN r.v
         THEN Returned(r.v["urls"], "list")
         ELSE IF r.ty = "dict" THEN Returned(<<>>, "list")
         ELSE Raised("AttributeError")

\* set(urls) of the str literals read
UrlSet(urls) == {urls[i][2] : i \in 1..Len(urls)}

SeenFiles == {NoFile} \cup {FileOf(DumpSeen(SortedUrls(S))) : S \in SUBSET SeenUrls}

NoSeenRun ==
    [stage |-> "idle", seen_urls |-> {}, seen_at_start |-> {}, before |-> NoFile,
     off |-> 0]

InitSeen ==
    /\ StoreIdle
    /\ FsIdle
    /\ probe = NoProbe
    /\ cfg = NoCfg
    /\ events = {}
    /\ disk \in [seen : SeenFiles]
    /\ run = NoSeenRun

SeenUnchanged == <<clock, storeVars, fsVars, probe, cfg, events>>

\* seen = load_json(seen_cache_path, ...); seen_urls = set(seen.get("urls", []))
SeenLoad ==
    /\ run.stage = "idle"
    /\ LET r == load_json(disk.seen) IN
       run' = IF r.exc # "none" THEN [run EXCEPT !.stage = "raised"]
              ELSE [run EXCEPT !.stage = "terms", !.seen_urls = UrlSet(r.val),
                               !.seen_at_start = UrlSet(r.val),
                               !.before = disk.seen]
    /\ UNCHANGED <<SeenUnchanged, disk>>

\* A candidate of the term loop that is not in seen_urls: seen_urls.add(img_url)
SeenVisit ==
    /\ run.stage = "terms"
    /\ \E u \in SeenUrls \ run.seen_urls :
          run' = [run EXCEPT !.seen_urls = SeenAdd(@, u)]
    /\ UNCHANGED <<SeenUnchanged, disk>>

\* save_json: open(path, "w") creates the file or truncates it
SeenOpen ==
    /\ run.stage = "terms"
    /\ disk' = [disk EXCEPT !.seen = FileOf(<<>>)]
    /\ run' = [run EXCEPT !.stage = "write", !.off = 0]
    /\ UNCHANGED SeenUnchanged

\* save_json: json.dump writes the text; the file is closed after the last
\* of it
SeenWrite ==
    /\ run.stage = "write"
    /\ LET text == DumpSeen(SortedUrls(run.seen_urls))
           n == Min(run.off + FlushLen, Len(text))
       IN /\ disk' = [disk EXCEPT !.seen =
                         FileOf(disk.seen.text \o SubSeq(text, run.off + 1, n))]
          /\ run' = [run EXCEPT !.off = n,
                                !.stage = IF n = Len(text) THEN "saved" ELSE "write"]
    /\ UNCHANGED SeenUnchanged

\* The process is killed during the run
SeenKilled ==
    /\ run.stage \in {"terms", "write"}
    /\ run' = [run EXCEPT !.stage = "killed"]
    /\ UNCHANGED <<SeenUnchanged, disk>>

NextSeen ==
    \/ SeenLoad
    \/ SeenVisit
    \/ SeenOpen
    \/ SeenWrite
    \/ SeenKilled

SpecSeen == InitSeen /\ [][NextSeen]_vars

\* C32: the seen cache is replaced atomically: a run killed at any point
\* leaves in the file either the complete seen set it loaded or the
\* complete new one, never an empty or truncated file; and the file a run
\* that completed leaves is a sorted list without duplicates that holds
\* every URL of the seen set loaded at the start of the run.
C32_SeenAtomic ==
    /\ run.stage = "killed" =>
          disk.seen \in {run.before, FileOf(DumpSeen(SortedUrls(run.seen_urls)))}
    /\ run.stage = "saved" =>
          LET r == load_json(disk.seen) IN
          /\ r.exc = "none"
          /\ \A i, j \in 1..Len(r.val) :
                i < j => \E a, b \in 1..Len(UrlOrder) :
                            /\ a < b
                            /\ UrlOrder[a] = r.val[i][2]
                            /\ UrlOrder[b] = r.val[j][2]
          /\ run.seen_at_start \subseteq UrlSet(r.val)

----------------------------------------------------------------------------
(* SpecDiscover: scan runs whose searches, page fetches and downloads can  *)
(* fail.  The variables are those of SpecScan; call is what the searches   *)
(* of the last term round did.  One run is followed from its start; it is  *)
(* not killed, and it takes its next step whenever it has one.             *)

\* What the image search of a term returns, and the pages its web search
\* returns
ImageHits == <<CandA, CandB>>
WebPages == <<"http://a.com/page", "http://b.org/page">>

\* The <img> sources of a page, joined to its URL
PageImages(p) ==
    IF p = "http://a.com/page" THEN <<"http://a.com/1.jpg">>
    ELSE <<"http://img.bad.com/3.jpg">>

\* What happens to the fetch and parse of a page: its images, a
\* RequestException, a status other than 200, or another exception
\* (urljoin raises ValueError on a malformed src)
ScrapeOutcomes == {"imgs", "request_error", "non200", "raises"}

\* extract_images_from_page(page_url): [raised, imgs]
extract_images_from_page(p, outcome) ==
    CASE outcome = "imgs" -> [raised |-> FALSE, imgs |-> PageImages(p)]
      [] outcome \in {"request_error", "non200"} -> [raised |-> FALSE, imgs |-> <<>>]
      [] OTHER -> [raised |-> TRUE, imgs |-> <<>>]

\* for p in pages: skip the excluded page, else append (img_url, p) for the
\* images of the page; an exception ends the loop (it is caught around the
\* web search) and leaves the candidates appended so far
RECURSIVE Scraped(_, _, _)
Scraped(pages, scrape, excluded) ==
    IF pages = <<>> THEN <<>>
    ELSE LET p == Head(pages)
             r == extract_images_from_page(p, Head(scrape))
         IN IF is_excluded(p, excluded)
            THEN Scraped(Tail(pages), Tail(scrape), excluded)
            ELSE IF r.raised THEN <<>>
            ELSE [j \in 1..Len(r.imgs) |-> [img |-> r.imgs[j], host |-> p]]
                 \o Scraped(Tail(pages), Tail(scrape), excluded)

\* The candidates of a round with the two searches in one try block
Discovered_one_try(image, web, scrape, excluded) ==
    IF image = "raises" THEN <<>>
    ELSE ImageHits \o (IF web = "ok" THEN Scraped(WebPages, scrape, excluded) ELSE <<>>)

\* The candidates of a term round: the image search in its try block, then
\* the web search and the scraping in theirs.  web is "off" when
\* web_count_per_term is 0.
Discovered(image, web, scrape, excluded) ==
    (IF image = "ok" THEN ImageHits ELSE <<>>)
    \o (IF web = "ok" THEN Scraped(WebPages, scrape, excluded) ELSE <<>>)

InitDiscover ==
    /\ StoreIdle
    /\ FsIdle
    /\ probe = NoProbe
    /\ cfg \in [variant : Variants, excluded : ExcludedConfigs, ssim : {"off"},
                threshold : {1}, known : {<<Ref1, Ref2>>}]
    /\ disk = [seen |-> {}, alerts |-> EmptyState]
    /\ run = NoRun
    /\ events = {}

\* The run starts: main up to the term loop
DiscoverStart ==
    /\ run.n = 0
    /\ ScanStart

\* The searches of one term, any of which can fail, and the filter of the
\* round
Discover ==
    /\ run.stage = "terms"
    /\ run.rounds < MaxTerms
    /\ \E image \in {"ok", "raises"}, web \in {"off", "ok", "raises"},
          scrape \in [1..Len(WebPages) -> ScrapeOutcomes] :
          LET excluded == IF cfg.variant = "dmca_monitor"
                          THEN load_excluded(cfg.excluded) ELSE {}
              candidates == Discovered(image, web, scrape, excluded)
              filtered == IF cfg.variant = "dmca_monitor"
                          THEN Filtered(candidates, {}, excluded)
                          ELSE candidates
          IN /\ web # "ok" => scrape = [j \in 1..Len(WebPages) |-> "imgs"]
             /\ run' = [run EXCEPT !.rounds = @ + 1, !.queue = filtered,
                                   !.stage = IF filtered = <<>> THEN "terms" ELSE "round"]
             /\ call' = [op |-> "discover", image |-> image, web |-> web,
                         scrape |-> scrape, run |-> run.n]
    /\ UNCHANGED <<clock, ops, hist, fsVars, probe, cfg, alerts, disk, events>>

NextDiscover ==
    \/ DiscoverStart
    \/ Discover
    \/ Take
    \/ DownloadFails
    \/ Download
    \/ Persist
    \/ Notify
    \/ Finish

SpecDiscover == InitDiscover /\ [][NextDiscover]_vars /\ WF_vars(NextDiscover)

\* The step of the searches of a term round, and whether one of them failed
DiscoverStep == run.stage = "terms" /\ run'.rounds = run.rounds + 1

SearchFailed(c) ==
    /\ c.op = "discover"
    /\ \/ c.image = "raises"
       \/ c.web = "raises"
       \/ c.web = "ok" /\ \E j \in 1..Len(WebPages) : c.scrape[j] # "imgs"

\* The step in which the download of run.cur fails
FetchFailedStep ==
    /\ run.stage = "download"
    /\ Event("download", run.cur, "", "failed") \in events' \ events

\* Whether the round filter keeps the candidate
KeptByFilter(u, page) ==
    cfg.variant = "dmca_monitor" =>
       /\ ~is_excluded(u, load_excluded(cfg.excluded))
       /\ ~is_excluded(page, load_excluded(cfg.excluded))

\* The run goes on after the step, with what it had
RunGoesOn ==
    /\ alerts' = alerts
    /\ disk' = disk
    /\ run'.grouped = run.grouped
    /\ run'.n = run.n
    /\ run'.stage \in {"terms", "round"}
    /\ \A ev \in events' \ events : ev.e \notin {"match", "log", "upsert", "notify"}

\* A failure happened in the run, which is in its term loop
FailedInLoop ==
    /\ run.stage \in {"terms", "round", "download"}
    /\ \/ SearchFailed(call) /\ call.run = run.n
       \/ \E ev \in events : ev.e = "download" /\ ev.info = "failed" /\ ev.run = run.n

\* C33: a failure of the image search, the web search, the scraping of a
\* page or the download of an image does not abort the run: the alert
\* state, the audit log and the batches are unchanged by it, the candidates
\* the other sources gave and the remaining ones of the round are still
\* queued, and the run reaches its final persistence.
C33_FailuresSkipped ==
    /\ [][/\ (DiscoverStep /\ SearchFailed(call')) =>
                /\ RunGoesOn
                /\ call'.image = "ok" =>
                      \A j \in 1..Len(ImageHits) :
                         KeptByFilter(ImageHits[j].img, ImageHits[j].host) =>
                            \E q \in 1..Len(run'.queue) : run'.queue[q].img = ImageHits[j].img
                /\ call'.web = "ok" =>
                      \A j \in 1..Len(WebPages) :
                         (/\ \A k \in 1..j : call'.scrape[k] # "raises"
                          /\ call'.scrape[j] = "imgs") =>
                            \A m \in 1..Len(PageImages(WebPages[j])) :
                               KeptByFilter(PageImages(WebPages[j])[m], WebPages[j]) =>
                                  \E q \in 1..Len(run'.queue) :
                                     run'.queue[q].img = PageImages(WebPages[j])[m]
          /\ FetchFailedStep =>
                /\ RunGoesOn
                /\ run'.queue = run.queue
                /\ run'.rounds = run.rounds]_vars
    /\ FailedInLoop ~> (run.stage = "notify" /\ Persisted(run.n))

\* In one run a download failed in the first round, and in the second the
\* image search raised and the fetch of the first page failed; the image of
\* the second page was matched and the run persisted.
C33_Witness ==
    /\ cfg.variant = "dmca_monitor"
    /\ run.stage = "notify"
    /\ run.rounds = 2
    /\ call.op = "discover" /\ call.run = run.n
    /\ call.image = "raises" /\ call.web = "ok"
    /\ call.scrape[1] = "request_error" /\ call.scrape[2] = "imgs"
    /\ \E ev \in events : ev.e = "download" /\ ev.info = "failed" /\ ev.run = run.n
    /\ \E ev \in events :
          ev.e = "upsert" /\ ev.url = "http://img.bad.com/3.jpg" /\ ev.run = run.n
    /\ Persisted(run.n)

----------------------------------------------------------------------------
(* SpecReview: the review requests of the dashboard, one after another.    *)
(* alerts is the document in the alert state file; a handler reads it with *)
(* get_state, changes the record and writes it back with set_state.  call  *)
(* is the last request.                                                    *)

\* The note field of the form: missing or empty, blank, a word, and a word
\* between blanks
NoteForms == {<<>>, <<Ws, Ws>>, <<Lit(Str("seen"))>>, <<Ws, Lit(Str("seen")), Ws>>}

\* text = (request.form.get("note") or "").strip(), for a note of one word
FormText(raw) ==
    LET t == Strip(raw) IN IF t = <<>> THEN "" ELSE t[1][2][2]

\* The document a handler leaves: get_state, _ensure_match_in_state, the
\* change of the record, set_state.  note_match returns before all of it
\* when the text is empty.
Reviewed(state, k, row, op, raw, now) ==
    IF op = "note" /\ FormText(raw) = "" THEN state
    ELSE LET s == EnsureMatch(load_state(FileOf(Dump(state))).val, k, row, now)
             m == MatchAt(s, k[1], k[2])
         IN SetMatch(s, k[1], k[2],
                     IF op = "note" THEN NoteRecord(m, FormText(raw), now)
                     ELSE Changed(m, op))

InitReview ==
    /\ ScanIdle
    /\ FsIdle
    /\ clock = 1
    /\ alerts \in {EmptyState, DocOne, AckedDoc}
    /\ call = [op |-> "init"]
    /\ ops = 0
    /\ hist = [k \in StoreKeys |-> NoCalls]

\* One request to the handler named op
Post(k, op, raw) ==
    /\ ops < MaxOps
    /\ \E row \in AuditRows(k) :
          /\ HasMatch(alerts, k[1], k[2]) => row = NoRow
          /\ alerts' = Reviewed(alerts, k, row, op, raw, clock)
    /\ call' = [op |-> op, key |-> k, raw |-> raw,
                existed |-> HasMatch(alerts, k[1], k[2])]
    /\ ops' = ops + 1
    /\ UNCHANGED <<clock, hist, fsVars, probe, scanVars>>

AckPost(k) == Post(k, "ack", <<>>)

ClosePost(k) == Post(k, "close", <<>>)

MutePost(k) == Post(k, "mute", <<>>)

NotePost(k, raw) == Post(k, "note", raw)

NextReview ==
    \/ Tick
    \/ \E k \in ScanKeys : AckPost(k)
    \/ \E k \in ScanKeys : ClosePost(k)
    \/ \E k \in ScanKeys : MutePost(k)
    \/ \E k \in ScanKeys, raw \in NoteForms : NotePost(k, raw)

SpecReview == InitReview /\ [][NextReview]_vars

\* The step of a request, and the fields of the record it may change
PostStep == ops' = ops + 1

OwnField(op) ==
    CASE op \in {"ack", "close"} -> "status"
      [] op = "mute" -> "muted"
      [] OTHER -> "notes"

\* C34: a manual action on an existing record changes only its own field
\* and leaves every other field, every other record and the key set as they
\* were: ack and close change only status, mute only muted, add-note only
\* appends one entry to notes; an add-note with blank text changes nothing
\* and creates no record.
C34_ReviewFrame ==
    [][PostStep =>
         LET k == call'.key
             op == call'.op
         IN
         /\ (op = "note" /\ Strip(call'.raw) = <<>>) => alerts' = alerts
         /\ (call'.existed /\ ~(op = "note" /\ Strip(call'.raw) = <<>>)) =>
               LET before == MatchAt(alerts, k[1], k[2])
                   after == MatchAt(alerts', k[1], k[2])
               IN /\ AllKeys(alerts') = AllKeys(alerts)
                  /\ DOMAIN alerts' = DOMAIN alerts
                  /\ \A k2 \in AllKeys(alerts) \ {k} :
                        MatchAt(alerts', k2[1], k2[2]) = MatchAt(alerts, k2[1], k2[2])
                  /\ DOMAIN after = DOMAIN before
                  /\ \A f \in DOMAIN before \ {OwnField(op)} : after[f] = before[f]
                  /\ op = "ack" => after["status"] = Str("ack")
                  /\ op = "close" => after["status"] = Str("closed")
                  /\ op = "mute" => after["muted"] = Bool(before["muted"] = Bool(FALSE))
                  /\ op = "note" =>
                        /\ Len(after["notes"]) = Len(before["notes"]) + 1
                        /\ SubSeq(after["notes"], 1, Len(before["notes"])) = before["notes"]
                        /\ after["notes"][Len(after["notes"])]["text"] = Str("seen")]_vars

\* An acknowledged record was muted and given a note, and a blank note was
\* posted for a pair without a record.
C34_Witness ==
    /\ call.op = "note" /\ Strip(call.raw) = <<>> /\ ~call.existed
    /\ ~HasMatch(alerts, call.key[1], call.key[2])
    /\ HasMatch(alerts, "a.com", "http://a.com/1.jpg")
    /\ LET m == MatchAt(alerts, "a.com", "http://a.com/1.jpg") IN
       /\ Len(m["notes"]) = 1
       /\ m["muted"] = Bool(TRUE)
       /\ m["status"] = Str("ack")

----------------------------------------------------------------------------
(* SpecTicks: the recheck job ticking for ever on a document that no one   *)
(* else changes.  run.records are the match records of the document in the *)
(* order iter_matches_from_state yields them, which is the order of the    *)
(* file and the same at every tick; call is the last tick.  The workers of *)
(* one tick all meet the same kind of answer.                              *)

MaxExtra == 2

\* The numbers of records of the documents: a few, and about BATCH_LIMIT
RecordCounts ==
    (1..MaxExtra) \cup ((BATCH_LIMIT - MaxExtra)..(BATCH_LIMIT + MaxExtra))

\* run_once, the targets loop on n records: the positions i (from 0 in the
\* code, from 1 here) before the break at i >= BATCH_LIMIT
BatchPositions(n) == 1..Min(n, BATCH_LIMIT)

InitTicks ==
    /\ FsIdle
    /\ probe = NoProbe
    /\ cfg = NoCfg
    /\ disk = NoDisk
    /\ events = {}
    /\ clock = 1
    /\ alerts = EmptyState
    /\ call = [op |-> "init"]
    /\ ops = 0
    /\ hist = [k \in StoreKeys |-> NoCalls]
    /\ \E n \in RecordCounts :
          run = [records |-> [i \in 1..n |-> UpsertNew(FullRow, Ts(1))]]

\* One tick of the job: run_once checks the targets and merges the results
RecheckTick ==
    /\ \E res \in Outcomes(clock) :
          /\ run' = [records |->
                        [i \in 1..Len(run.records) |->
                            IF i \in BatchPositions(Len(run.records))
                            THEN MergeOne(run.records[i], res)
                            ELSE run.records[i]]]
          /\ call' = [op |-> "run_once", ret |-> Cardinality(BatchPositions(Len(run.records)))]
    /\ UNCHANGED <<clock, alerts, ops, hist, fsVars, probe, cfg, disk, events>>

NextTicks ==
    \/ Tick
    \/ RecheckTick

SpecTicks == InitTicks /\ [][NextTicks]_vars /\ WF_vars(RecheckTick)

\* C37: under repeated recheck ticks every record of the state, whatever
\* their number, is eventually rechecked: its last_checked_utc is set.
C37_EveryRecordRechecked ==
    <>(\A i \in 1..Len(run.records) :
          Get(run.records[i], "last_checked_utc", None) # None)

----------------------------------------------------------------------------
(* SpecAudit: one run of dmca_monitor's scanner with the handling of a     *)
(* downloaded image taken step by step: the download and the matching      *)
(* loop, the audit row, the upsert.  call holds, in order, the URLs the    *)
(* run downloaded, the image_url of the rows it appended to the audit log  *)
(* and the URLs it upserted.                                               *)

InitAudit ==
    /\ FsIdle
    /\ probe = NoProbe
    /\ clock = 1
    /\ alerts = EmptyState
    /\ ops = 0
    /\ hist = [k \in StoreKeys |-> NoCalls]
    /\ call = [op |-> "scan", downloads |-> <<>>, log |-> <<>>, upserts |-> <<>>]
    /\ cfg \in [variant : {"dmca_monitor"}, excluded : {{}}, ssim : {"off"},
                threshold : {1}, known : KnownDBs]
    /\ disk \in [seen : StoredSeen, alerts : StoredAlerts]
    /\ run = NoRun
    /\ events = {}

AuditUnchanged == <<clock, ops, hist, fsVars, probe, cfg, disk>>

\* img = download_image(...) returned an image: compute_hashes and the
\* matching loop
Fetched ==
    /\ run.stage = "download"
    /\ LET c == run.cur
           matched_key == MatchedKey(cfg.variant, ImageHashes(ImageAt(c.img)),
                                     cfg.known, cfg.threshold, cfg.ssim)
       IN /\ run' = IF matched_key = None
                    THEN [run EXCEPT !.cur = NoCand, !.stage = NextStage]
                    ELSE [run EXCEPT !.stage = "log"]
          /\ events' = events \cup
                ({Event("download", c, "", "ok")} \cup
                 IF matched_key = None THEN {}
                 ELSE {Event("match", c, SiteKeyOf(c), matched_key[2])})
          /\ call' = [call EXCEPT !.downloads = Append(@, c.img)]
    /\ UNCHANGED <<AuditUnchanged, alerts>>

\* The local copy and log_match(logs_csv, row)
LogRow ==
    /\ run.stage = "log"
    /\ run' = [run EXCEPT !.stage = "upsert"]
    /\ events' = events \cup {Event("log", run.cur, SiteKeyOf(run.cur), "")}
    /\ call' = [call EXCEPT !.log = Append(@, run.cur.img)]
    /\ UNCHANGED <<AuditUnchanged, alerts>>

\* log_match raises (the audit log cannot be written): main ends with the
\* exception
LogRaises ==
    /\ run.stage = "log"
    /\ run' = [NoRun EXCEPT !.n = run.n]
    /\ UNCHANGED <<AuditUnchanged, alerts, events, call>>

\* upsert_match and the batch of the site
UpsertStep ==
    /\ run.stage = "upsert"
    /\ LET c == run.cur
           site_key == SiteKeyOf(c)
           matched_key == MatchedKey(cfg.variant, ImageHashes(ImageAt(c.img)),
                                     cfg.known, cfg.threshold, cfg.ssim)
           after == upsert_match(alerts, site_key, c.img,
                                 MatchRow(c, matched_key, clock), clock)
       IN /\ alerts' = after
          /\ run' = [run EXCEPT !.cur = NoCand, !.stage = NextStage,
                                !.grouped = IF ShouldNotify(MatchAt(after, site_key, c.img))
                                            THEN GroupAdd(@, site_key, c.img)
                                            ELSE @]
          /\ events' = events \cup {Event("upsert", c, site_key, "")}
          /\ call' = [call EXCEPT !.upserts = Append(@, c.img)]
    /\ UNCHANGED AuditUnchanged

NextAudit ==
    \/ DiscoverStart
    \/ Search
    \/ Take
    \/ DownloadFails
    \/ Fetched
    \/ LogRow
    \/ LogRaises
    \/ UpsertStep
    \/ Persist
    \/ Notify
    \/ Finish

SpecAudit == InitAudit /\ [][NextAudit]_vars

\* Whether no value occurs twice in the sequence
NoRepeat(seq) == \A i, j \in 1..Len(seq) : seq[i] = seq[j] => i = j

\* The URLs of all the batches, one after another
RECURSIVE BatchUrls(_)
BatchUrls(grouped) ==
    IF grouped = <<>> THEN <<>> ELSE Head(grouped).urls \o BatchUrls(Tail(grouped))

\* C38: within one scan run each image URL is downloaded, logged to the
\* audit log and upserted at most once across all terms, and occurs at most
\* once in all the batches together; each record the run upserts has its
\* audit row, with the same image URL, appended before the upsert.
C38_OncePerRun ==
    /\ NoRepeat(call.downloads)
    /\ \A i \in 1..Len(call.downloads) :
          ~\E ev \in events :
              ev.e = "download" /\ ev.info = "failed" /\ ev.url = call.downloads[i]
    /\ NoRepeat(call.log)
    /\ NoRepeat(call.upserts)
    /\ NoRepeat(BatchUrls(run.grouped))
    /\ Len(call.upserts) <= Len(call.log)
    /\ \A i \in 1..Len(call.upserts) : call.upserts[i] = call.log[i]
    /\ \A i \in 1..Len(call.upserts) :
          \E site \in DOMAIN alerts.sites : HasMatch(alerts, site, call.upserts[i])

\* Two terms returned the same image URL, under two host pages: it was
\* downloaded, logged and upserted once, as were two other matches, and the
\* run persisted.
C38_Witness ==
    /\ run.stage = "notify"
    /\ run.rounds = 2
    /\ Len(call.downloads) = 4
    /\ call.upserts = call.log
    /\ Len(call.upserts) = 3
    /\ \E i \in 1..3 : call.upserts[i] = "http://cdn.net/2.jpg"
    /\ Len(BatchUrls(run.grouped)) = 3

----------------------------------------------------------------------------
(* SpecCheck: check_one applied to what a fetch can do.                    *)

Codes == {200, 204, 301, 302, 304, 400, 401, 403, 404, 410, 429, 451, 500, 503}
ContentTypes == {"text/html", "text/plain; charset=utf-8", "image/jpeg", ""}
Bodies == {"", "hello", "DMCA notice", "Page Not Found"}

\* A response, a requests.RequestException (connection error, timeout), or
\* another exception.
AllFetches ==
    [kind : {"response"}, code : Codes, ctype : ContentTypes, body : Bodies]
    \cup {[kind |-> "RequestException"], [kind |-> "Exception"]}

InitCheck ==
    /\ StoreIdle
    /\ FsIdle
    /\ cfg = NoCfg
    /\ disk = NoDisk
    /\ run = NoRun
    /\ events = <<>>
    /\ probe \in [resp : AllFetches, done : {FALSE}, out : {None}]

\* A worker runs check_one on the URL.
Check ==
    /\ ~probe.done
    /\ probe' = [probe EXCEPT !.done = TRUE, !.out = check_one(probe.resp, clock)]
    /\ UNCHANGED <<clock, storeVars, fsVars, scanVars>>

NextCheck == Check

SpecCheck == InitCheck /\ [][NextCheck]_vars

\* C20: check_one gives every fetch outcome exactly one of gone, up and
\* error: 404, 410, 451 gone; 401, 403 and 3xx up; 200 gone when the body is
\* text that matches a takedown pattern and up otherwise; a transport
\* failure or timeout error, and error for nothing else.
C20_Classification ==
    probe.done =>
       LET r == probe.resp
           st == probe.out.status
       IN /\ st \in {Str("gone"), Str("up"), Str("error")}
          /\ (st = Str("error")) <=> (r.kind # "response")
          /\ r.kind = "response" =>
                /\ r.code \in {404, 410, 451} => st = Str("gone")
                /\ r.code \in {401, 403} => st = Str("up")
                /\ (300 <= r.code /\ r.code < 400) => st = Str("up")
                /\ r.code = 200 =>
                      (st = Str("gone")) <=> (HasText(r.ctype) /\ TAKEDOWN_HINTS(r.body))

\* A 200 whose text body carries a takedown notice was classified.
C20_Witness ==
    /\ probe.done
    /\ probe.resp.kind = "response"
    /\ probe.resp.code = 200
    /\ probe.resp.ctype = "text/html"
    /\ probe.resp.body = "DMCA notice"
    /\ probe.out.status = Str("gone")

----------------------------------------------------------------------------
(* Claims about the handlers running concurrently, checked under Spec *)

\* A record carries a manual disposition: it was acknowledged or closed,
\* is muted, or has a note.
HasDisposition(m) ==
    \/ Get(m, "status", None) \in {Str("ack"), Str("closed")}
    \/ Truthy(Get(m, "muted", None))
    \/ Get(m, "notes", <<>>) # <<>>

\* Record m's disposition is present in record n; an "ack" or "closed" the
\* merge of an inconclusive check replaced by "error" is not counted as
\* erased.
DispositionKept(m, n) ==
    /\ Get(n, "muted", None) = Get(m, "muted", None)
    /\ Get(n, "notes", <<>>) = Get(m, "notes", <<>>)
    /\ Get(m, "status", None) \in {Str("ack"), Str("closed")} =>
          Get(n, "status", None) \in {Get(m, "status", None), Str("error")}

\* C2: when the recheck batch's set_state puts its copy at the path, every
\* manual disposition that was in the document when that set_state began,
\* among them one a review handler saved after the batch's get_state, is in
\* the document the batch saved.
C2_RecheckKeepsDispositions ==
    [][(/\ pc["recheck"] = "replace"
        /\ pc'["recheck"] = "saved"
        /\ FileAt("path")' = FileOf(Dump(mem["recheck"]))
        /\ prior["recheck"].exc = "none"
        /\ prior["recheck"].ty = "dict")
       => \A k \in AllKeys(prior["recheck"].val) :
             LET m == MatchAt(prior["recheck"].val, k[1], k[2]) IN
             HasDisposition(m) =>
                /\ HasMatch(mem["recheck"], k[1], k[2])
                /\ DispositionKept(m, MatchAt(mem["recheck"], k[1], k[2]))]_vars

\* What the scan writes to a record is in record n as the scan left it in m.
ScanFieldsKept(m, n) ==
    \A f \in ProvFields \cup {"first_seen_utc", "seen_count"} :
       Get(n, f, None) = Get(m, f, None)

\* What the recheck writes to a record, seen the same way.
LivenessKept(m, n) ==
    \A f \in {"http_status", "fail_reason", "last_checked_utc"} :
       Get(n, f, <<"absent">>) = Get(m, f, <<"absent">>)

\* C3: once a scan run and a recheck batch have both saved, with no review
\* request made, the document at the path has every record of the scan's
\* copy with the fields the scan writes and every record of the batch's
\* copy with the liveness fields the batch writes.
C3_NoLostUpdate ==
    (pc["scan"] = "saved" /\ pc["recheck"] = "saved" /\ pc["web"] = "idle") =>
       LET r == load_state(FileAt("path")) IN
       /\ r.exc = "none"
       /\ r.ty = "dict"
       /\ \A k \in AllKeys(mem["scan"]) :
             /\ HasMatch(r.val, k[1], k[2])
             /\ ScanFieldsKept(MatchAt(mem["scan"], k[1], k[2]), MatchAt(r.val, k[1], k[2]))
       /\ \A k \in AllKeys(mem["recheck"]) :
             /\ HasMatch(r.val, k[1], k[2])
             /\ LivenessKept(MatchAt(mem["recheck"], k[1], k[2]), MatchAt(r.val, k[1], k[2]))

\* The (site, url) keys of the alert document in file, as load_state gives
\* it.
PersistedKeys(file) ==
    LET r == load_state(file) IN
    IF r.exc = "none" /\ r.ty = "dict" THEN AllKeys(r.val) ELSE {}

\* C11: in every interleaving of the scan run, the recheck batch and the
\* review request, a save that puts its complete document at the path
\* removes no key from the persisted alert document.
C11_KeysNeverShrink ==
    [][(\E p \in Handlers :
          /\ pc[p] = "replace"
          /\ pc'[p] = "saved"
          /\ FileAt("path")' = FileOf(Dump(mem[p])))
       => PersistedKeys(FileAt("path")) \subseteq PersistedKeys(FileAt("path")')]_vars

\* C12: a review request on a pair with no record and no audit row creates
\* nothing: once the request's document is at the path, every record of it
\* has provenance, none is made of a row of None.
C12_NoFabricatedRecord ==
    (pc["web"] = "saved" /\ FileAt("path") = FileOf(Dump(mem["web"]))) =>
       \A k \in AllKeys(mem["web"]) :
          \E f \in ProvFields : MatchAt(mem["web"], k[1], k[2])[f] # None

----------------------------------------------------------------------------
(* Claims about load_state and save_state *)

\* C4: with save_state calls on the same path running concurrently, the file
\* at the path is at every moment a complete serialization of a state passed
\* to save_state, or the document that was there before.
C4_PathAlwaysComplete ==
    names["path"] # 0 =>
       \/ data[names["path"]] \in DocTexts
       \/ FileAt("path") = initial

\* Two outcomes of load_state are the same outcome: the same exception, or
\* the same kind of value with the same content.
SameResult(a, b) ==
    /\ a.exc = b.exc
    /\ a.ty = b.ty
    /\ IF a.ty = "dict"
       THEN /\ DOMAIN a.val = DOMAIN b.val
            /\ \A k \in DOMAIN a.val : a.val[k] = b.val[k]
       ELSE a.val = b.val

\* C5: when a single save_state is cut short by a crash, at any point up to
\* the rename, load_state on the path gives what it gave before the save.
C5_CrashKeepsPrevious ==
    pc["s1"] = "crashed" => SameResult(load_state(FileAt("path")), prior["s1"])

\* A crash after the temp file was written in full and before the rename,
\* of a save of another state than the one saved before.
C5_Witness ==
    /\ pc["s1"] = "crashed"
    /\ prior["s1"] = Returned(DocOne, "dict")
    /\ mem["s1"] = DocReviewed
    /\ FileAt(TmpName) = FileOf(Dump(DocReviewed))
    /\ FileAt("path") # initial

\* C6: load_state after an uninterrupted save_state(path, s) returns s, for
\* every well-formed AlertState s, the empty one included.
C6_RoundTrip ==
    pc["s1"] = "saved" =>
        SameResult(load_state(FileAt("path")), Returned(mem["s1"], "dict"))

\* A completed save of a state with two sites, a note, None values and
\* liveness fields, written in several flushes.
C6_Witness ==
    /\ pc["s1"] = "saved"
    /\ mem["s1"] = DocReviewed
    /\ Len(FileAt("path").text) > 2 * FlushLen

\* C7: load_state raises nothing and returns an AlertState mapping whatever
\* the file is: missing, empty, or not parseable as an AlertState document.
C7_LoadAlwaysAlertState ==
    got.exc # "nocall" =>
       /\ got.exc = "none"
       /\ got.ty = "dict"
       /\ "sites" \in DOMAIN got.val

----------------------------------------------------------------------------
(* Claims about the store's operations, checked under SpecStore *)

StatusOf(state, k) == Get(MatchAt(state, k[1], k[2]), "status", None)

ManualStatus == {Str("closed"), Str("ack")}

\* C1: a recheck merge leaves the status of every record that is "closed" or
\* "ack" before the merge unchanged, whatever the check's outcome (up, gone,
\* or error from a transport failure or a worker exception).
C1_MergeKeepsManualStatus ==
    [][(ops' = ops + 1 /\ call'.op = "merge") =>
         \A k \in AllKeys(alerts) :
            StatusOf(alerts, k) \in ManualStatus =>
               StatusOf(alerts', k) = StatusOf(alerts, k)]_vars

\* C13: acknowledge, close and mute are idempotent on an existing record:
\* the same action applied to the same record a second time in succession
\* leaves the state as the first application left it.
C13_ReviewIdempotent ==
    [][(/\ ops' = ops + 1
        /\ call.op \in {"ack", "close", "mute"}
        /\ call'.op = call.op
        /\ call'.key = call.key)
       => alerts' = alerts]_vars

\* C8: after any sequence of upsert_match calls on one (site, url), the
\* record's first_seen_utc is the timestamp of the first call and its
\* seen_count is the number of calls.
C8_FirstSeenAndCount ==
    \A k \in StoreKeys :
       hist[k].n > 0 =>
          /\ HasMatch(alerts, k[1], k[2])
          /\ MatchAt(alerts, k[1], k[2]).first_seen_utc = hist[k].first
          /\ MatchAt(alerts, k[1], k[2]).seen_count = Num(hist[k].n)

\* Three calls on one key, the later ones with another timestamp than the
\* first, and review actions or a merge in between.
C8_Witness ==
    \E k \in StoreKeys :
       /\ hist[k].n = 3
       /\ call.op = "upsert" /\ call.key = k
       /\ UpsertNow(call.payload, call.wall) # hist[k].first

\* C9: upsert_match on a record that exists keeps each provenance field whose
\* payload value is empty or absent, takes the payload's value for each
\* whose payload value is non-empty, and leaves status, muted and notes alone.
C9_SparseOverwrite ==
    [][(ops' = ops + 1 /\ call'.op = "upsert" /\ call'.existed) =>
         LET k == call'.key
             p == call'.payload
             old == MatchAt(alerts, k[1], k[2])
             new == MatchAt(alerts', k[1], k[2])
         IN /\ \A f \in ProvFields :
                  new[f] = IF Get(p, f, None) \in {None, Str("")} THEN old[f] ELSE p[f]
            /\ new.status = old.status
            /\ new.muted = old.muted
            /\ new.notes = old.notes]_vars

\* An upsert on a reviewed record (acknowledged or closed, muted or noted)
\* that kept a known host page against an empty one and took a new term.
C9_Witness ==
    /\ call.op = "upsert" /\ call.existed
    /\ LET m == MatchAt(alerts, call.key[1], call.key[2]) IN
       /\ ~Truthy(call.payload.host_page) /\ Truthy(m.host_page)
       /\ Truthy(call.payload.term) /\ m.term = call.payload.term
       /\ m.seen_count = Num(2)
       /\ (m.status \in ManualStatus \/ m.muted = Bool(TRUE) \/ m.notes # <<>>)

\* C10: upsert_match on a (site, url) with no record creates one with status
\* "new", muted false, no notes, seen_count 1, first_seen_utc = last_seen_utc
\* = the payload's timestamp (the wall clock when the payload has none) and
\* the payload's provenance; every other record is as it was.
C10_CreateRecord ==
    [][(ops' = ops + 1 /\ call'.op = "upsert" /\ ~call'.existed) =>
         LET k == call'.key
             p == call'.payload
             t == IF p.timestamp_utc = None THEN Ts(call'.wall) ELSE p.timestamp_utc
             new == MatchAt(alerts', k[1], k[2])
         IN /\ ~HasMatch(alerts, k[1], k[2])
            /\ new = [status |-> Str("new"), muted |-> Bool(FALSE), notes |-> <<>>,
                      seen_count |-> Num(1),
                      first_seen_utc |-> t, last_seen_utc |-> t,
                      host_page |-> p.host_page, term |-> p.term,
                      matched_known_file |-> p.matched_known_file,
                      saved_copy |-> p.saved_copy]
            /\ AllKeys(alerts') = AllKeys(alerts) \cup {k}
            /\ \A o \in AllKeys(alerts) :
                  MatchAt(alerts', o[1], o[2]) = MatchAt(alerts, o[1], o[2])]_vars

\* A record created beside a record of another URL on the same site and a
\* record of another site.
C10_Witness ==
    /\ call.op = "upsert" /\ ~call.existed
    /\ call.payload.timestamp_utc # None
    /\ \E o1, o2 \in AllKeys(alerts) :
          /\ o1[1] = call.key[1] /\ o1[2] # call.key[2]
          /\ o2[1] # call.key[1]

\* C35: once the status of a record is not "new", no operation (an upsert
\* that finds the match again, a recheck merge, a review action) sets it
\* back to "new" or removes the record; so the record an upsert returns for
\* a match that was rechecked or reviewed is not eligible for notification.
C35_NeverBackToNew ==
    [][\A k \in AllKeys(alerts) :
          StatusOf(alerts, k) # Str("new") =>
             /\ k \in AllKeys(alerts')
             /\ StatusOf(alerts', k) # Str("new")
             /\ ~ShouldNotify(MatchAt(alerts', k[1], k[2]))]_vars

\* A record that was never reviewed was rechecked and found up, and then
\* found again by an upsert: its status is still "up".
C35_Witness ==
    /\ call.op = "upsert" /\ call.existed
    /\ ops = 3
    /\ LET m == MatchAt(alerts, call.key[1], call.key[2]) IN
       /\ m["status"] = Str("up")
       /\ m["seen_count"] = Num(2)
       /\ m["notes"] = <<>>
       /\ ~ShouldNotify(m)

====
